---- MODULE Spec2Model ----
(***************************************************************************)
(* Border detection and scoring engine of ffmpeg-crop-api.                 *)
(*                                                                         *)
(* The repository holds several revisions of one Express server.  The      *)
(* engine is the same in all of them: a probe (one ffmpeg run) writes      *)
(* diagnostic text to stderr, parseCrop takes the last crop=W:H:X:Y token  *)
(* of it, a scorer rates the rectangle against the frame size and a        *)
(* detector keeps the best one.  The revisions differ in the detector:     *)
(*   - detectCropSmart, tiered        (unnamed/part_001, lines 567-593)    *)
(*   - detectCropSmart, two passes    (unnamed/part_004, lines 76-93)      *)
(*   - detectWhiteCrop, scored sweep  (unnamed/part_001, lines 673-731)    *)
(*   - detectDarkCrop, single pass    (server.js, lines 73-85)             *)
(* A diagnostic text is a sequence of one-character strings.               *)
(***************************************************************************)
EXTENDS Integers, Sequences, FiniteSets, TLC

VARIABLES
    \* one child process and the parsers (unit run of parseCrop)
    stderrTxt,   \* sh: the stderr text of the child, chunk by chunk
    nChunks,     \* sh: how many "data" events the child has delivered
    parsed,      \* what the parsers returned for stderrTxt once it closed
    \* one call of the scorers (unit run of scoreCrop and of score)
    cand,        \* the candidate handed in (a rectangle or null)
    frameIn,     \* the frame size handed in
    scores,      \* what the two scorers returned
    unitPc,      \* unit runs: "off", "running" or "ready", then "done"
    \* one crop request of one revision of the server
    route,       \* which revision's upload route serves the request
    pc,          \* where the route handler stands
    pass,        \* light-border route: 1 on the upload, 2 on the intermediate
    frame,       \* the frame size the dimension query gave (inW, inH)
    tier,        \* tiered detector: index into limits; sweep: index of the combination
    results,     \* the probes in flight: one promise per pipeline of the tier
    best,        \* the detector's best candidate so far
    bestScore,   \* its score
    seen,        \* the rectangles the probes of this detection produced
    nIssued,     \* how many probe processes this detection has spawned
    probeFailed, \* whether a probe process of this detection failed
    det,         \* the detection call: "none", "running", "returned" or "threw"
    crop,        \* what the detection call returned to the route
    crop1,       \* light-border route: the rectangle of the first pass
    response,    \* the HTTP response, null until it is sent
    now,         \* wall clock: whole seconds since the request arrived
    target,      \* the file the detection call was given to probe
    tmp1,        \* light-border route: the intermediate file, null until written
    \* two requests in flight on one server
    reqs,        \* per request: where its handler stands and its local variables
    accum,       \* the accumulators (best, bestScore) of the detection calls
    disk         \* the temp directory: what each path holds

parseVars == <<stderrTxt, nChunks, parsed>>

scoreVars == <<cand, frameIn, scores>>

unitVars == <<stderrTxt, nChunks, parsed, cand, frameIn, scores, unitPc>>

srvVars == <<reqs, accum, disk>>

reqVars == <<route, pc, pass, frame, tier, results, best, bestScore, seen,
             nIssued, probeFailed, det, crop, crop1, response, now, target, tmp1,
             reqs, accum, disk>>

vars == <<stderrTxt, nChunks, parsed, cand, frameIn, scores, unitPc,
          route, pc, pass, frame, tier, results, best, bestScore, seen,
          nIssued, probeFailed, det, crop, crop1, response, now, target, tmp1,
          reqs, accum, disk>>

(***************************************************************************)
(* JavaScript values.                                                      *)
(***************************************************************************)
\* JavaScript null: a record no rectangle and no text is equal to.
NULL == [null |-> TRUE]

DigitChars == <<"0", "1", "2", "3", "4", "5", "6", "7", "8", "9">>

IsDigit(ch) == \E i \in 1..10 : DigitChars[i] = ch

DigitVal(ch) == (CHOOSE i \in 1..10 : DigitChars[i] = ch) - 1

\* Unary plus on a string of decimal digits (+last[1]): its value.
RECURSIVE ToNumber(_)
ToNumber(ds) ==
    IF Len(ds) = 0 THEN 0
    ELSE ToNumber(SubSeq(ds, 1, Len(ds) - 1)) * 10 + DigitVal(ds[Len(ds)])

\* A number inside a template literal (`${w}`): its shortest decimal form.
RECURSIVE NumToStr(_)
NumToStr(n) ==
    IF n < 10 THEN <<DigitChars[n + 1]>>
    ELSE NumToStr(n \div 10) \o <<DigitChars[(n % 10) + 1]>>

(***************************************************************************)
(* The regular expression /crop=(\d+):(\d+):(\d+):(\d+)/g of parseCrop.    *)
(***************************************************************************)
CropLit == <<"c", "r", "o", "p", "=">>

\* Whether the literal lit stands in txt at position p.
LitAt(txt, p, lit) ==
    /\ p + Len(lit) - 1 <= Len(txt)
    /\ \A i \in 1..Len(lit) : txt[p + i - 1] = lit[i]

\* \d+ is greedy: the position after the longest run of digits that starts
\* at p (p itself when txt[p] is no digit, and the group then fails).
RECURSIVE DigitsEnd(_, _)
DigitsEnd(txt, p) ==
    IF p <= Len(txt) /\ IsDigit(txt[p]) THEN DigitsEnd(txt, p + 1) ELSE p

NoMatch == [matched |-> FALSE]

\* \d* in place of \d+: a group may be empty.
GroupOkStar(a, e) == TRUE

\* \d+ : the group from a up to e (exclusive) holds at least one digit.
GroupOk(a, e) == e > a

\* The expression after its four groups matched: the match object.
Matched(txt, p, a1, e1, e2, e3, e4) ==
    [matched |-> TRUE,
     whole |-> SubSeq(txt, p, e4 - 1),
     g1 |-> SubSeq(txt, a1, e1 - 1),
     g2 |-> SubSeq(txt, e1 + 1, e2 - 1),
     g3 |-> SubSeq(txt, e2 + 1, e3 - 1),
     g4 |-> SubSeq(txt, e3 + 1, e4 - 1),
     next |-> e4]

\* (\d+) at the end: the fourth group runs from e3 + 1 up to e4.
Group4(txt, p, a1, e1, e2, e3, e4) ==
    IF ~GroupOk(e3 + 1, e4) THEN NoMatch
    ELSE Matched(txt, p, a1, e1, e2, e3, e4)

\* (\d+): the third group runs from e2 + 1 up to e3, and a colon follows.
Group3(txt, p, a1, e1, e2, e3) ==
    IF ~GroupOk(e2 + 1, e3) \/ ~LitAt(txt, e3, <<":">>) THEN NoMatch
    ELSE Group4(txt, p, a1, e1, e2, e3, DigitsEnd(txt, e3 + 1))

\* (\d+): the second group runs from e1 + 1 up to e2, and a colon follows.
Group2(txt, p, a1, e1, e2) ==
    IF ~GroupOk(e1 + 1, e2) \/ ~LitAt(txt, e2, <<":">>) THEN NoMatch
    ELSE Group3(txt, p, a1, e1, e2, DigitsEnd(txt, e2 + 1))

\* (\d+): the first group runs from a1 up to e1, and a colon follows.
Group1(txt, p, a1, e1) ==
    IF ~GroupOk(a1, e1) \/ ~LitAt(txt, e1, <<":">>) THEN NoMatch
    ELSE Group2(txt, p, a1, e1, DigitsEnd(txt, e1 + 1))

\* One attempt of the expression at position p.  Giving digits back never
\* helps (a ":" is no digit), so the attempt is decided by the greedy runs.
MatchAt(txt, p) ==
    IF ~LitAt(txt, p, CropLit) THEN NoMatch
    ELSE Group1(txt, p, p + 5, DigitsEnd(txt, p + 5))

\* stderrTxt.matchAll(re): the matches from position p on, left to right; the
\* search resumes after a match, and one position further after a failure.
RECURSIVE MatchAllFrom(_, _)
MatchAllFrom(txt, p) ==
    IF p > Len(txt) THEN <<>>
    ELSE LET m == MatchAt(txt, p)
         IN IF m.matched THEN <<m>> \o MatchAllFrom(txt, m.next)
            ELSE MatchAllFrom(txt, p + 1)

matchAll(txt) == MatchAllFrom(txt, 1)

\* Which match parseCrop reads: m[m.length - 1].
LastIndexFirst(m) == 1

LastIndex(m) == Len(m)

\* The text field: `crop=${w}:${h}:${x}:${y}`.
CropText(w, h, x, y) ==
    CropLit \o NumToStr(w) \o <<":">> \o NumToStr(h) \o <<":">>
            \o NumToStr(x) \o <<":">> \o NumToStr(y)

\* The rectangle of a match: { w, h, x, y, text }.
Rect(w, h, x, y) == [w |-> w, h |-> h, x |-> x, y |-> y, text |-> CropText(w, h, x, y)]

\* const w = +last[1], h = +last[2], x = +last[3], y = +last[4]
RectOfMatch(last) ==
    Rect(ToNumber(last.g1), ToNumber(last.g2), ToNumber(last.g3), ToNumber(last.g4))

\* const last = m[m.length - 1]
LastOf(m) == IF Len(m) = 0 THEN NULL ELSE RectOfMatch(m[LastIndex(m)])

\* parseCrop of the scoring revisions: the last token as a rectangle.
parseCrop(txt) == LastOf(matchAll(txt))

\* parseCrop of the first revision: the last token as matched, or null.
WholeOfLast(m) == IF Len(m) = 0 THEN NULL ELSE m[Len(m)].whole

parseCropText(txt) == WholeOfLast(matchAll(txt))

(***************************************************************************)
(* Numbers.  Every number the engine handles is an integer, except the     *)
(* NaN that parseInt gives for a missing width or height.  NaN is encoded  *)
(* as one reserved integer no frame size, coordinate or score can take;    *)
(* every comparison with it is false and every sum with it is NaN.         *)
(***************************************************************************)
NaN == 0 - 2000000000

IsNaN(n) == n = NaN

JsGt(a, b) == ~IsNaN(a) /\ ~IsNaN(b) /\ a > b

\* a < b * f for the fraction f = <<num, den>> (0.5 as <<1, 2>>, 0.6 as
\* <<3, 5>>).  For integers a and b below 2^31 the double product b * f and
\* the exact one compare alike with a, so the test is a * den < b * num.
LtFrac(a, b, f) == ~IsNaN(a) /\ ~IsNaN(b) /\ a * f[2] < b * f[1]

Max2(a, b) == IF a >= b THEN a ELSE b

(***************************************************************************)
(* The scorers.                                                            *)
(***************************************************************************)
\* The floor of scoreCrop: 0.5 of the frame.
SmartFloor == <<1, 2>>

\* The floor of the light-border scorer: 0.6 of the frame.
WhiteFloor == <<3, 5>>

\* The bar term subtracted instead of added.
BarWeightNegative == 0 - 200

\* scoreCrop: maxBar * 200.
BarWeight == 200

\* score of detectWhiteCrop: Math.max(top,bottom)*400 + Math.max(left,right)*50.
VerticalWeight == 400

HorizontalWeight == 50

\* What the scorers return for a missing or over-aggressive candidate.
Reject == 0 - 1

\* The rejection test with && in place of ||.
TooAggressiveBoth(c, inW, inH, floor) ==
    LtFrac(c.w, inW, floor) /\ LtFrac(c.h, inH, floor)

\* c.w < inW * floor || c.h < inH * floor
TooAggressive(c, inW, inH, floor) ==
    LtFrac(c.w, inW, floor) \/ LtFrac(c.h, inH, floor)

\* scoreCrop with the area kept in place of the area removed.
scoreCropKept(c, inW, inH) ==
    IF c = NULL THEN Reject
    ELSE IF TooAggressive(c, inW, inH, SmartFloor) THEN Reject
    ELSE IF IsNaN(inW) \/ IsNaN(inH) THEN NaN
    ELSE LET top == c.y
             left == c.x
             bottom == inH - (c.y + c.h)
             right == inW - (c.x + c.w)
             maxBar == Max2(Max2(top, bottom), Max2(left, right))
         IN (c.w * c.h) + maxBar * BarWeight

\* scoreCrop(c, inW, inH) of the tiered detector.
scoreCrop(c, inW, inH) ==
    IF c = NULL THEN Reject
    ELSE IF TooAggressive(c, inW, inH, SmartFloor) THEN Reject
    ELSE IF IsNaN(inW) \/ IsNaN(inH) THEN NaN
    ELSE LET removed == (inW * inH) - (c.w * c.h)
             top == c.y
             left == c.x
             bottom == inH - (c.y + c.h)
             right == inW - (c.x + c.w)
             maxBar == Max2(Max2(top, bottom), Max2(left, right))
         IN removed + maxBar * BarWeight

\* score(c) of detectWhiteCrop, with the frame size it closes over.
whiteScore(c, inW, inH) ==
    IF c = NULL THEN Reject
    ELSE IF TooAggressive(c, inW, inH, WhiteFloor) THEN Reject
    ELSE IF IsNaN(inW) \/ IsNaN(inH) THEN NaN
    ELSE LET removed == (inW * inH) - (c.w * c.h)
             top == c.y
             left == c.x
             bottom == inH - (c.y + c.h)
             right == inW - (c.x + c.w)
         IN removed + Max2(top, bottom) * VerticalWeight
                    + Max2(left, right) * HorizontalWeight

(***************************************************************************)
(* Unit run of the parsers on the stderr of one child process (sh).        *)
(* The child writes its diagnostics in chunks; sh appends each chunk       *)
(* (stderr += d) and hands the whole text over when the child closes.      *)
(***************************************************************************)
\* How many chunks a child may deliver.
MaxChunks == 3

\* The chunks a child may write: whole tokens, pieces of tokens and noise.
Chunks ==
    { <<"c", "r", "o", "p", "=">>,
      <<"1", "2">>,
      <<":">>,
      <<"x">>,
      <<"c", "r", "o", "p", "=", "1", "6", ":", "8", ":", "0", ":", "2">>,
      <<"c", "r", "o", "p", "=", "4", ":", "6", ":", "1", ":", "0">>,
      <<"c", "r", "o", "p", "=", "3", ":", "4", ":", "5">>,
      <<"c", "r", "o", "p", "=", "-", "1", "6", ":", "-", "8", ":", "0", ":", "0">> }

\* A promise of a probe that was not started.
Idle == [st |-> "idle"]

\* The variables of the two-request server when it is not run.
SrvIdle == reqs = <<>> /\ accum = <<>> /\ disk = <<>>

\* The variables of a request when the unit runs are made instead.
ReqIdle ==
    /\ SrvIdle
    /\ route = "none" /\ pc = "idle" /\ pass = 1 /\ frame = NULL /\ tier = 0
    /\ results = <<Idle, Idle, Idle>>
    /\ best = NULL /\ bestScore = Reject /\ seen = {}
    /\ nIssued = 0 /\ probeFailed = FALSE /\ det = "none"
    /\ crop = NULL /\ crop1 = NULL /\ response = NULL
    /\ now = 0 /\ target = NULL /\ tmp1 = NULL

\* The variables of the scorers' unit run when no such run is made.
ScoreIdle == cand = NULL /\ frameIn = NULL /\ scores = NULL

\* The variables of the parsers' unit run when no such run is made.
ParseIdle == stderrTxt = <<>> /\ nChunks = 0 /\ parsed = NULL

ParseInit ==
    /\ stderrTxt = <<>>
    /\ nChunks = 0
    /\ parsed = NULL
    /\ unitPc = "running"
    /\ ScoreIdle
    /\ ReqIdle

\* p.stderr.on("data", d => (stderr += d.toString()))
StderrData(d) ==
    /\ unitPc = "running"
    /\ nChunks < MaxChunks
    /\ stderrTxt' = stderrTxt \o d
    /\ nChunks' = nChunks + 1
    /\ UNCHANGED <<parsed, unitPc, scoreVars, reqVars>>

\* The child closes with code 0 and both parsers read the text.
ParseCall ==
    /\ unitPc = "running"
    /\ parsed' = [crop |-> parseCrop(stderrTxt), text |-> parseCropText(stderrTxt)]
    /\ unitPc' = "done"
    /\ UNCHANGED <<stderrTxt, nChunks, scoreVars, reqVars>>

ParseNext ==
    \/ \E d \in Chunks : StderrData(d)
    \/ ParseCall

SpecParse == ParseInit /\ [][ParseNext]_vars

(***************************************************************************)
(* Unit run of the two scorers on every small frame and candidate.         *)
(***************************************************************************)
\* The largest frame side of the unit run.
MaxSide == 5

ScoreFrames ==
    [w : 1..MaxSide, h : 1..MaxSide] \cup {[w |-> NaN, h |-> NaN]}

ScoreCands ==
    {NULL} \cup
    { Rect(w, h, x, y) :
        w \in 0..(MaxSide + 1), h \in 0..(MaxSide + 1), x \in 0..1, y \in 0..1 }

ScoreInit ==
    /\ cand \in ScoreCands
    /\ frameIn \in ScoreFrames
    /\ scores = NULL
    /\ unitPc = "ready"
    /\ ParseIdle
    /\ ReqIdle

ScoreCall ==
    /\ unitPc = "ready"
    /\ scores' = [smart |-> scoreCrop(cand, frameIn.w, frameIn.h),
                  white |-> whiteScore(cand, frameIn.w, frameIn.h)]
    /\ unitPc' = "done"
    /\ UNCHANGED <<cand, frameIn, parseVars, reqVars>>

ScoreNext == ScoreCall

SpecScore == ScoreInit /\ [][ScoreNext]_vars

(***************************************************************************)
(* detectMotionCrop of part_002: the bounding boxes the bbox filter prints *)
(* as lavfi.bbox.x=, .y=, .w= and .h= are collected and joined.            *)
(***************************************************************************)
\* Math.min() of no argument is Infinity, Math.max() is -Infinity.
Infinity == 2000000001

NegInfinity == 0 - 2000000001

\* The literal of /lavfi\.bbox\.k=(\d+)/g up to its group.
BboxKey(k) == <<"l", "a", "v", "f", "i", ".", "b", "b", "o", "x", ".", k, "=">>

\* [...stderr.matchAll(/lavfi\.bbox\.k=(\d+)/g)].map(m => +m[1]) from p on.
\* Where the expression matches at or after p: the key, then \d+.
BboxHits(txt, key, p) ==
    { q \in p..Len(txt) :
        LitAt(txt, q, key) /\ GroupOk(q + Len(key), DigitsEnd(txt, q + Len(key))) }

\* The search resumes where the last match ended and takes the leftmost one.
RECURSIVE BboxAllFrom(_, _, _)
BboxAllFrom(txt, key, p) ==
    IF BboxHits(txt, key, p) = {} THEN <<>>
    ELSE LET q == CHOOSE q \in BboxHits(txt, key, p) :
                      \A r \in BboxHits(txt, key, p) : q <= r
         IN <<ToNumber(SubSeq(txt, q + Len(key), DigitsEnd(txt, q + Len(key)) - 1))>>
            \o BboxAllFrom(txt, key, DigitsEnd(txt, q + Len(key)))

BboxAll(txt, k) == BboxAllFrom(txt, BboxKey(k), 1)

\* ws[i] in arithmetic: the element, or undefined (NaN once added) past the end.
At(s, i) == IF i \in 1..Len(s) THEN s[i] ELSE NaN

\* x + ws[i]
JsAdd(a, b) == IF IsNaN(a) \/ IsNaN(b) THEN NaN ELSE a + b

\* x2 - x1, with the infinities Math.min and Math.max give for no argument.
JsSub(a, b) ==
    IF IsNaN(a) \/ IsNaN(b) THEN NaN
    ELSE IF a = Infinity THEN (IF b = Infinity THEN NaN ELSE Infinity)
    ELSE IF a = NegInfinity THEN (IF b = NegInfinity THEN NaN ELSE NegInfinity)
    ELSE IF b = Infinity THEN NegInfinity
    ELSE IF b = NegInfinity THEN Infinity
    ELSE a - b

\* Math.min(...s)
MathMin(s) ==
    IF Len(s) = 0 THEN Infinity
    ELSE IF \E i \in 1..Len(s) : IsNaN(s[i]) THEN NaN
    ELSE s[CHOOSE i \in 1..Len(s) : \A j \in 1..Len(s) : s[i] <= s[j]]

\* Math.max(...s)
MathMax(s) ==
    IF Len(s) = 0 THEN NegInfinity
    ELSE IF \E i \in 1..Len(s) : IsNaN(s[i]) THEN NaN
    ELSE s[CHOOSE i \in 1..Len(s) : \A j \in 1..Len(s) : s[i] >= s[j]]

\* xs.map((x, i) => x + ws[i])
FarSides(xs, ws) == [i \in 1..Len(xs) |-> JsAdd(xs[i], At(ws, i))]

\* The box of the last frame only, as parseBboxMeta computes it.
LastBox(xs, ys, ws, hs) ==
    [x |-> At(xs, Len(xs)), y |-> At(ys, Len(ys)),
     w |-> At(ws, Len(ws)), h |-> At(hs, Len(hs))]

\* x1, y1, x2, y2, then w = x2 - x1 and h = y2 - y1.
UnionBox(xs, ys, ws, hs) ==
    [x |-> MathMin(xs), y |-> MathMin(ys),
     w |-> JsSub(MathMax(FarSides(xs, ws)), MathMin(xs)),
     h |-> JsSub(MathMax(FarSides(ys, hs)), MathMin(ys))]

\* w >= 0 && h >= 0 in place of the strict test.
PositiveOrZero(w, h) == (~IsNaN(w) /\ w >= 0) /\ (~IsNaN(h) /\ h >= 0)

\* (w > 0 && h > 0)
Positive(w, h) == JsGt(w, 0) /\ JsGt(h, 0)

\* return (w>0 && h>0) ? { x:x1, y:y1, w, h, text } : null
BoxOrNull(b) == IF Positive(b.w, b.h) THEN Rect(b.w, b.h, b.x, b.y) ELSE NULL

\* The body of the try block once sh has resolved with stderr txt.
MotionBox(txt) ==
    IF Len(BboxAll(txt, "x")) = 0 THEN NULL
    ELSE BoxOrNull(UnionBox(BboxAll(txt, "x"), BboxAll(txt, "y"),
                            BboxAll(txt, "w"), BboxAll(txt, "h")))

\* detectMotionCrop on a probe that closed with o: a failure is caught.
detectMotionCrop(o) == IF o.code = 0 THEN MotionBox(o.stderr) ELSE NULL

\* What the metadata printer writes for one frame's box.
BoxLines(x, y, w, h) ==
    BboxKey("x") \o NumToStr(x) \o <<"\n">> \o BboxKey("y") \o NumToStr(y) \o <<"\n">> \o
    BboxKey("w") \o NumToStr(w) \o <<"\n">> \o BboxKey("h") \o NumToStr(h) \o <<"\n">>

\* The pieces of stderr in the unit run of detectMotionCrop: whole boxes
\* (one of them empty), lone components, a component cut before its digits,
\* and a line of another filter.
MotionChunks ==
    { BoxLines(1, 0, 3, 2), BoxLines(4, 2, 2, 5), BoxLines(10, 1, 0, 0),
      BoxLines(0, 6, 12, 1),
      BboxKey("x") \o <<"2", "\n">>, BboxKey("y") \o <<"3", "\n">>,
      BboxKey("w") \o <<"7", "\n">>, BboxKey("h") \o <<"4", "\n">>,
      BboxKey("w") \o <<"\n">>,
      <<"f", "r", "a", "m", "e", "=", "1", "2", "\n">> }

\* The most pieces of stderr in the unit run of detectMotionCrop.
MaxFrames == 2

\* p.stderr.on("data", d => (stderr += d.toString())) of the motion probe.
MotionData(d) ==
    /\ unitPc = "running"
    /\ nChunks < MaxFrames
    /\ stderrTxt' = stderrTxt \o d
    /\ nChunks' = nChunks + 1
    /\ UNCHANGED <<parsed, unitPc, scoreVars, reqVars>>

\* The probe closes with code and detectMotionCrop reads its stderr.
MotionClose(code) ==
    /\ unitPc = "running"
    /\ parsed' = [crop |-> detectMotionCrop([code |-> code, stderr |-> stderrTxt]),
                  code |-> code]
    /\ unitPc' = "done"
    /\ UNCHANGED <<stderrTxt, nChunks, scoreVars, reqVars>>

MotionNext ==
    \/ \E d \in MotionChunks : MotionData(d)
    \/ \E code \in {0, 1} : MotionClose(code)

SpecMotion == ParseInit /\ [][MotionNext]_vars

(***************************************************************************)
(* Child processes.  A child closes with an exit code; sh resolves with    *)
(* its output on code 0 and rejects with Error(stderr || `exit ${code}`)   *)
(* otherwise.  A failing child is modelled with an empty stderr.           *)
(***************************************************************************)
Str1920x1080 == <<"1", "9", "2", "0", "x", "1", "0", "8", "0", "\n">>

Str1080x1920 == <<"1", "0", "8", "0", "x", "1", "9", "2", "0", "\n">>

\* What ffprobe may print for the upload: a size, or nothing (no video stream).
DimsStdouts == {Str1920x1080, Str1080x1920, <<"\n">>}

IsSpace(ch) == ch = " " \/ ch = "\n"

\* stdout.trim()
RECURSIVE Trim(_)
Trim(s) ==
    IF Len(s) = 0 THEN s
    ELSE IF IsSpace(s[1]) THEN Trim(SubSeq(s, 2, Len(s)))
    ELSE IF IsSpace(s[Len(s)]) THEN Trim(SubSeq(s, 1, Len(s) - 1))
    ELSE s

\* parseInt(n, 10): the leading digits of n, NaN when there is none.
ParseInt(s) ==
    LET e == DigitsEnd(s, 1)
    IN IF e = 1 THEN NaN ELSE ToNumber(SubSeq(s, 1, e - 1))

\* The positions of "x" in s, where split("x") cuts.
Cuts(s) == { i \in 1..Len(s) : s[i] = "x" }

\* const [w, h] = stdout.trim().split("x").map(n => parseInt(n, 10)); a
\* missing second piece leaves h undefined, which compares and adds as NaN.
ParseDims(stdout) ==
    LET t == Trim(stdout)
        cuts == Cuts(t)
    IN IF cuts = {} THEN [w |-> ParseInt(t), h |-> NaN]
       ELSE LET c1 == CHOOSE i \in cuts : \A j \in cuts : i <= j
                rest == { j \in cuts : j > c1 }
                c2 == IF rest = {} THEN Len(t) + 1
                      ELSE CHOOSE i \in rest : \A j \in rest : i <= j
            IN [w |-> ParseInt(SubSeq(t, 1, c1 - 1)),
                h |-> ParseInt(SubSeq(t, c1 + 1, c2 - 1))]

\* A diagnostic line with no rectangle token.
NoiseText == <<"f", "r", "a", "m", "e", "=", "1", "2", "\n">>

\* cropdetect's line for the rectangle w:h:x:y.
TokenLine(w, h, x, y) == <<" ">> \o CropText(w, h, x, y) \o <<"\n">>

\* The diagnostic texts a probe of the upload may end with: no token, the
\* full landscape frame, a letterbox refined over two tokens, an over-tight
\* rectangle, a pillarbox, the full portrait frame.
ProbeTexts ==
    { NoiseText,
      NoiseText \o TokenLine(1920, 1080, 0, 0),
      TokenLine(1920, 1072, 0, 4) \o NoiseText \o TokenLine(1920, 800, 0, 140),
      TokenLine(640, 360, 640, 360),
      TokenLine(1440, 1080, 240, 0),
      TokenLine(1080, 1920, 0, 0) }

\* How a child ends: exit code and stderr text.
FailExit == [code |-> 1, stderr |-> <<>>]

ProbeOutcomes == {FailExit} \cup { [code |-> 0, stderr |-> t] : t \in ProbeTexts }

\* The message of the Error sh rejects with: stderr || `exit ${code}`.
ExitMessage == "exit 1"

\* scale=trunc(iw/2)*2: the even size the re-encode gives a cropped side.
Even(n) == (n \div 2) * 2

\* What ffprobe prints for the intermediate file cropped to c.
IntermediateStdout(c) == NumToStr(Even(c.w)) \o <<"x">> \o NumToStr(Even(c.h)) \o <<"\n">>

\* The texts a probe of the intermediate may end with: no token, its full
\* frame, a four-line shave of it (centred, off the bottom, off the top), an
\* over-tight rectangle.
RefineTexts(f) ==
    { NoiseText,
      TokenLine(f.w, f.h, 0, 0),
      TokenLine(f.w, f.h - 4, 0, 2),
      TokenLine(f.w, f.h - 4, 0, 0),
      TokenLine(f.w, f.h - 4, 0, 4),
      TokenLine(f.w \div 4, f.h \div 4, 0, 0) }

RefineOutcomes(f) == {FailExit} \cup { [code |-> 0, stderr |-> t] : t \in RefineTexts(f) }

\* The texts the motion probe of the upload may end with: no box, one box,
\* two boxes.
MotionTexts ==
    { NoiseText,
      BoxLines(120, 200, 840, 1500),
      BoxLines(120, 200, 840, 1500) \o NoiseText \o BoxLines(100, 260, 880, 1400) }

MotionOutcomes == {FailExit} \cup { [code |-> 0, stderr |-> t] : t \in MotionTexts }

\* detectMotionCrop of every outcome the motion probe may have.
MotionYields == [o \in MotionOutcomes |-> detectMotionCrop(o)]

(***************************************************************************)
(* The detectors' constants.                                               *)
(***************************************************************************)
\* detectCropSmart: const limits = [30, 45, 60, 75]
limits == <<30, 45, 60, 75>>

\* detectCropSmart: the pipelines of one tier, in the order of the array.
pipelines == <<"dark", "invert", "edges">>

\* detectWhiteCrop: thresholds, blurs and limits of the sweep.
thresholds == <<238, 242, 246, 250>>

blurs == <<18, 24, 30>>

whiteLimits == <<6, 8, 10, 14>>

\* The combinations of detectWhiteCrop in the order of its loops: the
\* thresholded pipelines first, then the inversion fallback.
NThreshold == Len(thresholds) * Len(blurs) * Len(whiteLimits)

NCombos == NThreshold + Len(blurs) * Len(whiteLimits)

\* The inversion pipelines tried first.
ComboKindInvertFirst(k) ==
    IF k <= Len(blurs) * Len(whiteLimits) THEN "invert" ELSE "threshold"

ComboKind(k) == IF k <= NThreshold THEN "threshold" ELSE "invert"

\* let best = null, bestScore = -1
InitBestScoreLow == 0 - 2

InitBestScore == 0 - 1

(***************************************************************************)
(* Promises of the probes.                                                 *)
(***************************************************************************)
Running == [st |-> "running"]

Resolved(c) == [st |-> "resolved", c |-> c]

Rejected == [st |-> "rejected"]

\* Promise.all never resolves.
AllSettledNever(rs, n) == FALSE

\* await Promise.all(...): every probe of the tier has resolved.
AllSettled(rs, n) == \A i \in 1..n : rs[i].st = "resolved"

\* The candidate replaces the best one whatever its score.
BetterAlways(s, bs) == TRUE

\* A candidate replaces the best one also on an equal score.
BetterOrEqual(s, bs) == JsGt(s, bs) \/ (~IsNaN(s) /\ ~IsNaN(bs) /\ s = bs)

\* if (s > bestScore) { best = c; bestScore = s; }
Better(s, bs) == JsGt(s, bs)

\* The loop never stops early.
GoodEnoughNever(bs) == FALSE

\* if (bestScore > 0) break;
GoodEnough(bs) == JsGt(bs, 0)

\* for (const c of results) { const s = scoreCrop(c, inW, inH); ... }: the
\* best candidate and its score after the candidates cs[i..].
\* Every candidate is compared with the score read before the loop, and the
\* last one that beats it is written: the updates before it are lost.
ScoreLoopStale(acc, cs, i, f) ==
    LET w == { j \in i..Len(cs) : Better(scoreCrop(cs[j], f.w, f.h), acc.bestScore) }
    IN IF w = {} THEN acc
       ELSE LET j == CHOOSE k \in w : \A m \in w : m <= k
            IN [best |-> cs[j], bestScore |-> scoreCrop(cs[j], f.w, f.h)]

RECURSIVE ScoreLoop(_, _, _, _)
ScoreLoop(acc, cs, i, f) ==
    IF i > Len(cs) THEN acc
    ELSE LET s == scoreCrop(cs[i], f.w, f.h)
         IN IF Better(s, acc.bestScore)
            THEN ScoreLoop([best |-> cs[i], bestScore |-> s], cs, i + 1, f)
            ELSE ScoreLoop(acc, cs, i + 1, f)

\* A candidate joins the rectangles seen when the probe produced one.
See(s, c) == IF c = NULL THEN s ELSE s \cup {c}

\* try { return parseCrop(stderr) } catch { return null }: what a probe
\* yields to a detector that catches its failure.
CaughtYield(o) == IF o.code = 0 THEN parseCrop(o.stderr) ELSE NULL

\* CaughtYield of every outcome a probe of the upload may have.
UploadYields == [o \in ProbeOutcomes |-> CaughtYield(o)]

\* The frames an intermediate file may have: the even size of a rectangle
\* the first pass or the motion fallback may return.
IntermediateFrames ==
    { [w |-> Even(c.w), h |-> Even(c.h)] :
        c \in ({ UploadYields[o] : o \in ProbeOutcomes }
                \cup { MotionYields[o] : o \in MotionOutcomes }) \ {NULL} }

\* CaughtYield of every outcome a probe of an intermediate may have.
RefineYields ==
    [o \in UNION { RefineOutcomes(f) : f \in IntermediateFrames } |-> CaughtYield(o)]

ProbeYield(o) ==
    IF o \in ProbeOutcomes THEN UploadYields[o]
    ELSE IF o \in DOMAIN RefineYields THEN RefineYields[o]
    ELSE CaughtYield(o)

\* res.status(code).json({ error })
ErrorResponse(code, msg) == [status |-> code, error |-> msg, crops |-> <<>>]

\* A video file: the crops cut out of the upload to make it, in order, and
\* how many times libx264 has encoded it since.
Upload == [crops |-> <<>>, encodes |-> 0]

\* ffmpeg -i f -vf [c.text,] scale=trunc(iw/2)*2:... -c:v libx264 out: the
\* file out; with no rectangle only the scale and the encoder act.
Encode(f, c) ==
    [crops |-> IF c = NULL THEN f.crops ELSE Append(f.crops, c),
     encodes |-> f.encodes + 1]

\* detectWhiteCrop(file, 2): the micro-pass given the upload again.
RefineInputOriginal(file, t1) == file

\* detectWhiteCrop(tmp1, 2): the micro-pass is given the intermediate.
RefineInput(file, t1) == t1

\* res.sendFile(outFile): the file sent.
FileResponse(f) == [status |-> 200, error |-> "", file |-> f]

(***************************************************************************)
(* One crop request.  The revision that serves it is fixed at the start:   *)
(*   "smart"  /crop-upload with the tiered detectCropSmart (part_001)      *)
(*   "smart2" /crop-upload with the two-pass detectCropSmart (part_004)    *)
(*   "white"  /crop-upload-white with the scored sweep (part_001)          *)
(*   "dark"   /crop-upload with detectDarkCrop (server.js)                 *)
(*   "white2" /crop-upload-white with the motion fallback (part_002)       *)
(*   "white0" /crop-upload-white with the two-pipeline pass (server.js)    *)
(*   "url"    /crop, which downloads the video first (part_005)            *)
(***************************************************************************)
Routes == {"smart", "smart2", "white", "dark", "white2", "white0", "url"}

\* The revisions of /crop-upload-white: two passes of detectWhiteCrop.
WhiteRoutes == {"white", "white2"}

UnitIdle == ParseIdle /\ ScoreIdle /\ unitPc = "off"

Init ==
    /\ route \in Routes
    /\ pc = "idle" /\ pass = 1 /\ frame = NULL /\ tier = 0
    /\ results = <<Idle, Idle, Idle>>
    /\ best = NULL /\ bestScore = InitBestScore /\ seen = {}
    /\ nIssued = 0 /\ probeFailed = FALSE /\ det = "none"
    /\ crop = NULL /\ crop1 = NULL /\ response = NULL
    /\ now = 0 /\ target = NULL /\ tmp1 = NULL
    /\ UnitIdle
    /\ SrvIdle

\* The 400 is sent and the handler goes on (no return).
EmptyBodyNoReturn ==
    /\ pc = "idle"
    /\ route # "url"
    /\ response = NULL
    /\ response' = ErrorResponse(400, "No file in body")
    /\ UNCHANGED <<route, pc, pass, frame, tier, results, best, bestScore, seen,
                   nIssued, probeFailed, det, crop, crop1, unitVars, srvVars, now, target, tmp1>>

\* if (!req.body || !req.body.length) return res.status(400)...
EmptyBody ==
    /\ pc = "idle"
    /\ route # "url"
    /\ response' = ErrorResponse(400, "No file in body")
    /\ pc' = "responded"
    /\ UNCHANGED <<route, pass, frame, tier, results, best, bestScore, seen,
                   nIssued, probeFailed, det, crop, crop1, unitVars, srvVars, now, target, tmp1>>

\* The routes whose detector starts with the dimension query: bufferToTemp,
\* then detectCropSmart / detectWhiteCrop up to the await of ffprobe.
ReceiveThenDims ==
    /\ pc = "idle"
    /\ route \in {"smart"} \cup WhiteRoutes
    /\ pc' = "dims"
    /\ det' = "running"
    /\ target' = Upload
    /\ best' = NULL /\ bestScore' = InitBestScore
    /\ UNCHANGED <<route, pass, frame, tier, results, seen, nIssued,
                   probeFailed, crop, crop1, response, unitVars, srvVars, now, tmp1>>

\* part_004: bufferToTemp, then detectCropSmart starts both passes at once.
Smart2Receive ==
    /\ pc = "idle"
    /\ route = "smart2"
    /\ results' = <<Running, Running, Idle>>
    /\ nIssued' = 2
    /\ det' = "running"
    /\ target' = Upload
    /\ pc' = "probing"
    /\ UNCHANGED <<route, pass, frame, tier, best, bestScore, seen,
                   probeFailed, crop, crop1, response, unitVars, srvVars, now, tmp1>>

\* server.js: bufferToTemp, then detectDarkCrop starts its one probe.
DarkReceive ==
    /\ pc = "idle"
    /\ route = "dark"
    /\ results' = <<Running, Idle, Idle>>
    /\ nIssued' = 1
    /\ det' = "running"
    /\ target' = Upload
    /\ pc' = "probing"
    /\ UNCHANGED <<route, pass, frame, tier, best, bestScore, seen,
                   probeFailed, crop, crop1, response, unitVars, srvVars, now, tmp1>>

\* server.js detectWhiteCrop: the pipelines it tries one after the other.
whitePipelines ==
    <<[blur |-> 28, threshold |-> 238, limit |-> 6],
      [blur |-> 34, threshold |-> 240, limit |-> 8]>>

\* server.js /crop-upload-white: bufferToTemp, then detectWhiteCrop starts
\* the probe of its first pipeline.
White0Receive ==
    /\ pc = "idle"
    /\ route = "white0"
    /\ results' = <<Running, Idle, Idle>>
    /\ nIssued' = 1
    /\ tier' = 1
    /\ det' = "running"
    /\ target' = Upload
    /\ pc' = "probing"
    /\ UNCHANGED <<route, pass, frame, best, bestScore, seen,
                   probeFailed, crop, crop1, response, unitVars, srvVars, now, tmp1>>

\* server.js detectWhiteCrop: the probe of pipeline tier closes; a rectangle
\* is returned at once (if (c) return c), a failure is caught, and with
\* nothing found the next pipeline is probed; after the last one the
\* detector returns null and the route throws.
White0ProbeClose(o) ==
    /\ pc = "probing"
    /\ route = "white0"
    /\ results[1] = Running
    /\ seen' = See(seen, ProbeYield(o))
    /\ probeFailed' = (probeFailed \/ o.code # 0)
    /\ IF ProbeYield(o) # NULL
       THEN /\ det' = "returned"
            /\ crop' = ProbeYield(o)
            /\ best' = ProbeYield(o)
            /\ results' = <<Idle, Idle, Idle>>
            /\ pc' = "encode"
            /\ UNCHANGED <<tier, nIssued, response>>
       ELSE IF tier < Len(whitePipelines)
       THEN /\ tier' = tier + 1
            /\ nIssued' = nIssued + 1
            /\ UNCHANGED <<det, crop, best, results, pc, response>>
       ELSE /\ det' = "returned"
            /\ results' = <<Idle, Idle, Idle>>
            /\ response' = ErrorResponse(500, "Could not detect crop on white background")
            /\ pc' = "responded"
            /\ UNCHANGED <<tier, nIssued, crop, best>>
    /\ UNCHANGED <<route, pass, frame, bestScore, crop1, unitVars, srvVars, now, target, tmp1>>

\* part_005 /crop: if (!url) return res.status(400)...
UrlMissing ==
    /\ pc = "idle"
    /\ route = "url"
    /\ response' = ErrorResponse(400, "Missing url")
    /\ pc' = "responded"
    /\ UNCHANGED <<route, pass, frame, tier, results, best, bestScore, seen,
                   nIssued, probeFailed, det, crop, crop1, unitVars, srvVars, now, target, tmp1>>

\* part_005 downloadToTemp throws (the request fails, or the source is not
\* video): the route's catch answers 500 and no file was written.
UrlDownloadFail ==
    /\ pc = "idle"
    /\ route = "url"
    /\ response' = ErrorResponse(500, "Source is not video. Content-Type: unknown")
    /\ pc' = "responded"
    /\ UNCHANGED <<route, pass, frame, tier, results, best, bestScore, seen,
                   nIssued, probeFailed, det, crop, crop1, unitVars, srvVars, now, target, tmp1>>

\* part_005 /crop: downloadToTemp wrote the video, and the route starts its
\* one cropdetect probe.
UrlReceive ==
    /\ pc = "idle"
    /\ route = "url"
    /\ results' = <<Running, Idle, Idle>>
    /\ nIssued' = 1
    /\ det' = "running"
    /\ target' = Upload
    /\ pc' = "probing"
    /\ UNCHANGED <<route, pass, frame, tier, best, bestScore, seen,
                   probeFailed, crop, crop1, response, unitVars, srvVars, now, tmp1>>

\* part_005 /crop: the probe closes.  sh is awaited with no catch of its
\* own, so a failure goes to the route's catch (500); with no token the
\* route answers 422; otherwise the token goes to the re-encode.  The route
\* keeps the token's text; crop holds the rectangle the text denotes.
UrlProbeClose(o) ==
    /\ pc = "probing"
    /\ route = "url"
    /\ results[1] = Running
    /\ results' = <<Idle, Idle, Idle>>
    /\ probeFailed' = (o.code # 0)
    /\ IF o.code # 0
       THEN /\ det' = "threw"
            /\ response' = ErrorResponse(500, ExitMessage)
            /\ pc' = "responded"
            /\ UNCHANGED <<seen, crop, best>>
       ELSE /\ det' = "returned"
            /\ seen' = See(seen, ProbeYield(o))
            /\ crop' = ProbeYield(o)
            /\ best' = ProbeYield(o)
            /\ IF parseCropText(o.stderr) = NULL
               THEN /\ response' = ErrorResponse(422, "Could not detect crop")
                    /\ pc' = "responded"
               ELSE /\ response' = response
                    /\ pc' = "encode"
    /\ UNCHANGED <<route, pass, frame, tier, bestScore, nIssued, crop1, unitVars, srvVars, now, target, tmp1>>

\* ffprobe exits non-zero: sh rejects, the detector rejects, and the route's
\* catch answers 500 with the error's message.
DimsFail ==
    /\ pc = "dims"
    /\ det' = "threw"
    /\ response' = ErrorResponse(500, ExitMessage)
    /\ pc' = "responded"
    /\ UNCHANGED <<route, pass, frame, tier, results, best, bestScore, seen,
                   nIssued, probeFailed, crop, crop1, unitVars, srvVars, now, target, tmp1>>

\* What ffprobe may print for the file the pass probes.
DimsOutputs ==
    IF target \in {NULL, Upload} THEN DimsStdouts
    ELSE {IntermediateStdout(target.crops[Len(target.crops)])}

\* detectCropSmart: getDims resolves, and the first tier starts its three
\* probes (pipelines.map(vf => detectOnce(...)) spawns them at once).
SmartDimsClose(out) ==
    /\ pc = "dims"
    /\ route = "smart"
    /\ frame' = ParseDims(out)
    /\ tier' = 1
    /\ results' = <<Running, Running, Running>>
    /\ nIssued' = Len(pipelines)
    /\ pc' = "probing"
    /\ UNCHANGED <<route, pass, best, bestScore, seen, probeFailed, det,
                   crop, crop1, response, unitVars, srvVars, now, target, tmp1>>

\* detectOnce of part_001: the probe closes; a failure is caught and is null.
SmartProbeClose(i, o) ==
    /\ pc = "probing"
    /\ route = "smart"
    /\ results[i] = Running
    /\ results' = [results EXCEPT ![i] = Resolved(ProbeYield(o))]
    /\ seen' = See(seen, ProbeYield(o))
    /\ probeFailed' = (probeFailed \/ o.code # 0)
    /\ UNCHANGED <<route, pc, pass, frame, tier, best, bestScore, nIssued,
                   det, crop, crop1, response, unitVars, srvVars, now, target, tmp1>>

\* detectCropSmart after await Promise.all: score the tier's results in
\* pipeline order, then stop (good enough, or last tier) or start the next
\* tier; on return processVideo throws for null and starts the re-encode
\* otherwise.
SmartTierSettle ==
    /\ pc = "probing"
    /\ route = "smart"
    /\ AllSettled(results, Len(pipelines))
    /\ LET acc == ScoreLoop([best |-> best, bestScore |-> bestScore],
                            <<results[1].c, results[2].c, results[3].c>>, 1, frame)
       IN /\ best' = acc.best
          /\ bestScore' = acc.bestScore
          /\ IF GoodEnough(acc.bestScore) \/ tier = Len(limits)
             THEN /\ det' = "returned"
                  /\ crop' = acc.best
                  /\ results' = <<Idle, Idle, Idle>>
                  /\ IF acc.best = NULL
                     THEN /\ response' = ErrorResponse(500, "Could not detect crop")
                          /\ pc' = "responded"
                     ELSE /\ response' = response
                          /\ pc' = "encode"
                  /\ UNCHANGED <<tier, nIssued>>
             ELSE /\ tier' = tier + 1
                  /\ results' = <<Running, Running, Running>>
                  /\ nIssued' = nIssued + Len(pipelines)
                  /\ UNCHANGED <<det, crop, response, pc>>
    /\ UNCHANGED <<route, pass, frame, seen, probeFailed, crop1, unitVars, srvVars, now, target, tmp1>>

\* detectOnce of part_004 has no catch: a failing probe rejects Promise.all
\* at once, detectCropSmart and processVideo reject, and the route's catch
\* answers 500 with the probe's error.
Smart2ProbeClose(i, o) ==
    /\ pc = "probing"
    /\ route = "smart2"
    /\ results[i] = Running
    /\ IF o.code = 0
       THEN /\ results' = [results EXCEPT ![i] = Resolved(ProbeYield(o))]
            /\ seen' = See(seen, ProbeYield(o))
            /\ UNCHANGED <<probeFailed, det, response, pc>>
       ELSE /\ results' = [results EXCEPT ![i] = Rejected]
            /\ probeFailed' = TRUE
            /\ det' = "threw"
            /\ response' = ErrorResponse(500, ExitMessage)
            /\ pc' = "responded"
            /\ seen' = seen
    /\ UNCHANGED <<route, pass, frame, tier, best, bestScore, nIssued,
                   crop, crop1, unitVars, srvVars, now, target, tmp1>>

\* const area = c => c.w * c.h
area(c) == c.w * c.h

\* detectCropSmart of part_004: the tighter of the two, or the one there is.
PickTighter(dark, bright) ==
    IF dark # NULL /\ bright # NULL
    THEN (IF area(bright) < area(dark) THEN bright ELSE dark)
    ELSE IF dark # NULL THEN dark
    ELSE IF bright # NULL THEN bright
    ELSE NULL

\* part_004 after await Promise.all resolved: pick, then processVideo.
Smart2Settle ==
    /\ pc = "probing"
    /\ route = "smart2"
    /\ AllSettled(results, 2)
    /\ LET c == PickTighter(results[1].c, results[2].c)
       IN /\ crop' = c
          /\ best' = c
          /\ det' = "returned"
          /\ results' = <<Idle, Idle, Idle>>
          /\ IF c = NULL
             THEN /\ response' = ErrorResponse(500, "Could not detect crop")
                  /\ pc' = "responded"
             ELSE /\ response' = response
                  /\ pc' = "encode"
    /\ UNCHANGED <<route, pass, frame, tier, bestScore, seen, nIssued,
                   probeFailed, crop1, unitVars, srvVars, now, target, tmp1>>

\* A probe that was still running when the request was answered closes; its
\* promise settles and nothing reads it.
OrphanClose(i, o) ==
    /\ pc = "responded"
    /\ results[i] = Running
    /\ results' = [results EXCEPT ![i] =
                     IF o.code = 0 THEN Resolved(ProbeYield(o)) ELSE Rejected]
    /\ UNCHANGED <<route, pc, pass, frame, tier, best, bestScore, seen, nIssued,
                   probeFailed, det, crop, crop1, response, unitVars, srvVars, now, target, tmp1>>

\* detectDarkCrop of server.js and its route: the probe closes, a failure is
\* caught and is null, and the route throws "Could not detect crop" for null.
DarkProbeClose(o) ==
    /\ pc = "probing"
    /\ route = "dark"
    /\ results[1] = Running
    /\ results' = <<Idle, Idle, Idle>>
    /\ seen' = See(seen, ProbeYield(o))
    /\ probeFailed' = (o.code # 0)
    /\ det' = "returned"
    /\ crop' = ProbeYield(o)
    /\ best' = ProbeYield(o)
    /\ IF ProbeYield(o) = NULL
       THEN /\ response' = ErrorResponse(500, "Could not detect crop")
            /\ pc' = "responded"
       ELSE /\ response' = response
            /\ pc' = "encode"
    /\ UNCHANGED <<route, pass, frame, tier, bestScore, nIssued, crop1, unitVars, srvVars, now, target, tmp1>>

\* detectWhiteCrop: ffprobe resolves and the sweep starts its first probe.
WhiteDimsClose(out) ==
    /\ pc = "dims"
    /\ route \in WhiteRoutes
    /\ frame' = ParseDims(out)
    /\ tier' = 1
    /\ results' = <<Running, Idle, Idle>>
    /\ nIssued' = 1
    /\ best' = NULL /\ bestScore' = InitBestScore
    /\ seen' = {}
    /\ probeFailed' = FALSE
    /\ pc' = "probing"
    /\ UNCHANGED <<route, pass, det, crop, crop1, response, unitVars, srvVars, now, target, tmp1>>

\* What the probe of the current pass may end with.
WhiteOutcomes ==
    IF target \in {NULL, Upload} \/ pc # "probing" THEN ProbeOutcomes
    ELSE RefineOutcomes(frame)

\* detectWhiteCrop: the probe of combination tier closes (tryVF catches a
\* failure), the candidate is scored and kept if better, and the next
\* combination is probed; after the last one the detector returns, and the
\* route throws for a null first pass (part_002 first falls back to
\* detectMotionCrop), or starts the re-encode (part_002 copies the
\* intermediate when the micro-pass returned null).
WhiteProbeClose(o) ==
    /\ pc = "probing"
    /\ route \in WhiteRoutes
    /\ results[1] = Running
    /\ seen' = See(seen, ProbeYield(o))
    /\ probeFailed' = (probeFailed \/ o.code # 0)
    /\ LET c == ProbeYield(o)
           s == whiteScore(c, frame.w, frame.h)
           nb == IF Better(s, bestScore) THEN c ELSE best
           nbs == IF Better(s, bestScore) THEN s ELSE bestScore
       IN /\ best' = nb
          /\ bestScore' = nbs
          /\ IF tier < NCombos
             THEN /\ tier' = tier + 1
                  /\ nIssued' = nIssued + 1
                  /\ UNCHANGED <<results, det, crop, crop1, response, pc>>
             ELSE /\ crop' = nb
                  /\ crop1' = IF pass = 1 THEN nb ELSE crop1
                  /\ tier' = tier
                  /\ IF pass = 1 /\ nb = NULL /\ route = "white2"
                     THEN /\ results' = <<Running, Idle, Idle>>
                          /\ nIssued' = nIssued + 1
                          /\ det' = "running"
                          /\ response' = response
                          /\ pc' = "motion"
                     ELSE /\ results' = <<Idle, Idle, Idle>>
                          /\ nIssued' = nIssued
                          /\ det' = "returned"
                          /\ IF pass = 1 /\ nb = NULL
                             THEN /\ response' = ErrorResponse(500, "Could not detect white-page crop")
                                  /\ pc' = "responded"
                             ELSE /\ response' = response
                                  /\ pc' = IF pass = 2 /\ nb = NULL /\ route = "white2"
                                           THEN "copy" ELSE "encode"
    /\ UNCHANGED <<route, pass, frame, unitVars, srvVars, now, target, tmp1>>

\* The re-encode fails: sh rejects and the route's catch answers 500.
EncodeFail ==
    /\ pc = "encode"
    /\ response' = ErrorResponse(500, ExitMessage)
    /\ pc' = "responded"
    /\ UNCHANGED <<route, pass, frame, tier, results, best, bestScore, seen,
                   nIssued, probeFailed, det, crop, crop1, unitVars, srvVars, now, target, tmp1>>

\* The first crop of the light-border route is written: the micro-pass
\* starts detectWhiteCrop(tmp1, 2), which first asks ffprobe for tmp1's size.
IntermediateDone ==
    /\ pc = "encode"
    /\ route \in WhiteRoutes
    /\ pass = 1
    /\ pass' = 2
    /\ tmp1' = Encode(Upload, crop1)
    /\ target' = RefineInput(Upload, Encode(Upload, crop1))
    /\ det' = "running"
    /\ pc' = "dims"
    /\ UNCHANGED <<route, frame, tier, results, best, bestScore, seen,
                   nIssued, probeFailed, crop, crop1, response, unitVars, srvVars, now>>

\* The motion probe of part_002's fallback closes: detectMotionCrop returns
\* the union box or null, and the route throws for null or starts the
\* first re-encode.
MotionProbeClose(o) ==
    /\ pc = "motion"
    /\ results[1] = Running
    /\ results' = <<Idle, Idle, Idle>>
    /\ probeFailed' = (probeFailed \/ o.code # 0)
    /\ seen' = See({}, MotionYields[o])
    /\ det' = "returned"
    /\ crop' = MotionYields[o]
    /\ crop1' = MotionYields[o]
    /\ IF MotionYields[o] = NULL
       THEN /\ response' = ErrorResponse(500, "Could not detect white-page or motion crop")
            /\ pc' = "responded"
       ELSE /\ response' = response
            /\ pc' = "encode"
    /\ UNCHANGED <<route, pass, frame, tier, best, bestScore, nIssued,
                   unitVars, srvVars, now, target, tmp1>>

\* part_002, micro-pass returned null: fs.copyFile(tmp1, outFile), then the
\* copy is sent.
CopyDone ==
    /\ pc = "copy"
    /\ response' = FileResponse(tmp1)
    /\ pc' = "responded"
    /\ UNCHANGED <<route, pass, frame, tier, results, best, bestScore, seen,
                   nIssued, probeFailed, det, crop, crop1, unitVars, srvVars, now, target, tmp1>>

\* The last re-encode is written and the file is sent.
EncodeDone ==
    /\ pc = "encode"
    /\ ~(route \in WhiteRoutes /\ pass = 1)
    /\ response' = FileResponse(Encode(IF pass = 2 THEN tmp1 ELSE Upload, crop))
    /\ pc' = "responded"
    /\ UNCHANGED <<route, pass, frame, tier, results, best, bestScore, seen,
                   nIssued, probeFailed, det, crop, crop1, unitVars, srvVars, now, target, tmp1>>

Next ==
    \/ EmptyBody
    \/ ReceiveThenDims
    \/ Smart2Receive
    \/ DarkReceive
    \/ DimsFail
    \/ \E out \in DimsOutputs : SmartDimsClose(out)
    \/ \E i \in 1..3, o \in ProbeOutcomes : SmartProbeClose(i, o)
    \/ SmartTierSettle
    \/ \E i \in 1..2, o \in ProbeOutcomes : Smart2ProbeClose(i, o)
    \/ Smart2Settle
    \/ \E i \in 1..2, o \in ProbeOutcomes : OrphanClose(i, o)
    \/ \E o \in ProbeOutcomes : DarkProbeClose(o)
    \/ \E out \in DimsOutputs : WhiteDimsClose(out)
    \/ \E o \in WhiteOutcomes : WhiteProbeClose(o)
    \/ EncodeFail
    \/ IntermediateDone
    \/ \E o \in MotionOutcomes : MotionProbeClose(o)
    \/ CopyDone
    \/ EncodeDone
    \/ White0Receive
    \/ \E o \in ProbeOutcomes : White0ProbeClose(o)
    \/ UrlMissing
    \/ UrlDownloadFail
    \/ UrlReceive
    \/ \E o \in ProbeOutcomes : UrlProbeClose(o)

Spec == Init /\ [][Next]_vars

(***************************************************************************)
(* The request with progress.  Every child process exits (sh settles on    *)
(* "close"), every download and file operation settles, and the event loop *)
(* runs each continuation that is ready: a request that can take a step    *)
(* takes one.  The probes end in one of four ways: failure, no token, the   *)
(* full frame, a letterbox.                                                *)
(***************************************************************************)
LiveOutcomes ==
    { FailExit,
      [code |-> 0, stderr |-> NoiseText],
      [code |-> 0, stderr |-> NoiseText \o TokenLine(1920, 1080, 0, 0)],
      [code |-> 0, stderr |-> TokenLine(1920, 1072, 0, 4) \o NoiseText
                                \o TokenLine(1920, 800, 0, 140)] }

\* What the probe of the current pass may end with.
LiveWhiteOutcomes ==
    IF target \in {NULL, Upload} \/ pc # "probing" THEN LiveOutcomes
    ELSE { FailExit,
           [code |-> 0, stderr |-> NoiseText],
           [code |-> 0, stderr |-> TokenLine(frame.w, frame.h - 4, 0, 2)] }

LiveNext ==
    \/ EmptyBody
    \/ ReceiveThenDims
    \/ Smart2Receive
    \/ DarkReceive
    \/ DimsFail
    \/ \E out \in DimsOutputs : SmartDimsClose(out)
    \/ \E i \in 1..3, o \in LiveOutcomes : SmartProbeClose(i, o)
    \/ SmartTierSettle
    \/ \E i \in 1..2, o \in LiveOutcomes : Smart2ProbeClose(i, o)
    \/ Smart2Settle
    \/ \E i \in 1..2, o \in LiveOutcomes : OrphanClose(i, o)
    \/ \E o \in LiveOutcomes : DarkProbeClose(o)
    \/ \E out \in DimsOutputs : WhiteDimsClose(out)
    \/ \E o \in LiveWhiteOutcomes : WhiteProbeClose(o)
    \/ EncodeFail
    \/ IntermediateDone
    \/ \E o \in MotionOutcomes : MotionProbeClose(o)
    \/ CopyDone
    \/ EncodeDone
    \/ White0Receive
    \/ \E o \in LiveOutcomes : White0ProbeClose(o)
    \/ UrlMissing
    \/ UrlDownloadFail
    \/ UrlReceive
    \/ \E o \in LiveOutcomes : UrlProbeClose(o)

SpecLive == Init /\ [][LiveNext]_vars /\ WF_vars(LiveNext)

(***************************************************************************)
(* The tiered detector with the wall clock running.  No code reads the     *)
(* clock: sh sets no timer on its child, and detectCropSmart awaits every  *)
(* tier for as long as its probes take.                                    *)
(***************************************************************************)
MaxClock == 3

\* A second passes while the request waits for a child process.
Tick ==
    /\ pc \in {"dims", "probing", "encode"}
    /\ now < MaxClock
    /\ now' = now + 1
    /\ UNCHANGED <<route, pc, pass, frame, tier, results, best, bestScore, seen,
                   nIssued, probeFailed, det, crop, crop1, response, unitVars, srvVars,
                   target, tmp1>>

TimedInit == Init /\ route = "smart"

TimedNext ==
    \/ Tick
    \/ EmptyBody
    \/ ReceiveThenDims
    \/ DimsFail
    \/ \E out \in DimsOutputs : SmartDimsClose(out)
    \/ \E i \in 1..3, o \in ProbeOutcomes : SmartProbeClose(i, o)
    \/ SmartTierSettle
    \/ EncodeFail
    \/ EncodeDone

SpecTimed == TimedInit /\ [][TimedNext]_vars

(***************************************************************************)
(* Two requests in flight on one server.  Both post to /crop-upload of the *)
(* revision route: "smart" (part_001) or "dark" (server.js).  Each handler *)
(* is an async function: its local variables are per request, the temp     *)
(* directory and the clock are shared with the other request.              *)
(***************************************************************************)
Reqs == {1, 2}

ServerRoutes == {"smart", "dark"}

\* The uploads: a letterboxed video, one on which two pipelines of the
\* second tier report different rectangles of equal score, and one on
\* which no probe reports anything.
Videos == {"letterbox", "ties", "blank"}

\* ffprobe's answer for every upload: 1920x1080.
VideoFrame(v) == [w |-> 1920, h |-> 1080]

\* detectOnce on video v with pipeline i of tier t: the rectangle of the
\* last token, null when there is none.
SmartYield(v, t, i) ==
    CASE v = "letterbox" ->
             <<Rect(1920, 800, 0, 140), Rect(1920, 1080, 0, 0), NULL>>[i]
      [] v = "ties" ->
             IF t = 1 THEN <<NULL, Rect(1920, 1080, 0, 0), NULL>>[i]
             ELSE <<Rect(1920, 900, 0, 60), Rect(1920, 900, 0, 120),
                    Rect(1920, 1080, 0, 0)>>[i]
      [] OTHER -> NULL

\* detectDarkCrop on video v.
DarkYield(v) ==
    CASE v = "letterbox" -> Rect(1920, 800, 0, 140)
      [] v = "ties" -> Rect(1920, 900, 0, 60)
      [] OTHER -> NULL

\* The six characters mkdtemp appends to the prefix.
DirNames == {"Xa", "Xb"}

\* fs.mkdtemp(join(tmpdir(), "cropapi-"))
TempDir(d) == <<"cropapi-", d>>

\* join(dir, "in.mp4")
InFile(d) == <<"cropapi-", d, "/in.mp4">>

\* join(tmpdir(), `cropapi-${Date.now()}-out.mp4`), -black.mp4 in server.js
OutFile(t, rt) ==
    <<"cropapi-">> \o NumToStr(t) \o <<IF rt = "dark" THEN "-black.mp4" ELSE "-out.mp4">>

\* mkdtemp creates a directory that did not exist: the names it may pick.
mkdtemp(dk) == { d \in DirNames : TempDir(d) \notin DOMAIN dk }

\* What a directory entry holds.
DirEntry == [video |-> "", crops |-> <<>>]

\* A write to path q (ffmpeg -y and writeFile replace what is there).
WriteFile(dk, q, c) == [x \in DOMAIN dk \cup {q} |-> IF x = q THEN c ELSE dk[x]]

\* fs.rm(dir, { recursive: true, force: true })
RemoveDir(dk, d) == [x \in DOMAIN dk \ {TempDir(d), InFile(d)} |-> dk[x]]

\* best and bestScore declared once for the whole module.
AccShared(r) == 1

\* let best = null, bestScore = -1 inside detectCropSmart: every call has
\* its own pair.
Acc(r) == r

InitAcc == [best |-> NULL, bestScore |-> InitBestScore]

\* The values reach the array in the order the probes close.
SlotByArrival(i, rs) == 1 + Cardinality({ j \in 1..Len(rs) : rs[j].st = "resolved" })

\* await Promise.all(promises): the value of promise i is element i of the
\* array, whenever it settled.
Slot(i, rs) == i

IdleReq ==
    [pc |-> "idle", video |-> "", dir |-> "", frame |-> NULL, tier |-> 0,
     running |-> {}, first |-> 0, results |-> <<Idle, Idle, Idle>>, crop |-> NULL,
     outFile |-> <<>>, status |-> 0, sent |-> NULL]

ServerInit ==
    /\ UnitIdle
    /\ route \in ServerRoutes
    /\ pc = "idle" /\ pass = 1 /\ frame = NULL /\ tier = 0
    /\ results = <<Idle, Idle, Idle>>
    /\ best = NULL /\ bestScore = Reject /\ seen = {}
    /\ nIssued = 0 /\ probeFailed = FALSE /\ det = "none"
    /\ crop = NULL /\ crop1 = NULL /\ response = NULL
    /\ now = 0 /\ target = NULL /\ tmp1 = NULL
    /\ reqs = [r \in Reqs |-> IdleReq]
    /\ accum = [r \in Reqs |-> InitAcc]
    /\ disk = [x \in {} |-> DirEntry]

\* The variables of the one-request machine, which the server leaves alone.
soloVars == <<pc, pass, frame, tier, results, best, bestScore, seen, nIssued,
              probeFailed, det, crop, crop1, response, target, tmp1>>

\* The file the probes of request r read.
VideoOf(r) == disk[InFile(reqs[r].dir)].video

\* if (!req.body || !req.body.length) return res.status(400)...
SrvEmptyBody(r) ==
    /\ reqs[r].pc = "idle"
    /\ reqs' = [reqs EXCEPT ![r].pc = "done", ![r].status = 400]
    /\ UNCHANGED <<accum, disk, route, now, soloVars, unitVars>>

\* bufferToTemp(req.body): mkdtemp and writeFile; then the detector starts:
\* detectCropSmart sets its accumulator and awaits getDims, detectDarkCrop
\* spawns its probe.
SrvReceive(r, v, d) ==
    /\ reqs[r].pc = "idle"
    /\ d \in mkdtemp(disk)
    /\ disk' = WriteFile(WriteFile(disk, TempDir(d), DirEntry),
                         InFile(d), [video |-> v, crops |-> <<>>])
    /\ IF route = "smart"
       THEN /\ reqs' = [reqs EXCEPT ![r].pc = "dims", ![r].video = v, ![r].dir = d]
            /\ accum' = [accum EXCEPT ![Acc(r)] = InitAcc]
       ELSE /\ reqs' = [reqs EXCEPT ![r].pc = "probing", ![r].video = v, ![r].dir = d,
                                    ![r].running = {1}]
            /\ accum' = accum
    /\ UNCHANGED <<route, now, soloVars, unitVars>>

\* detectCropSmart: getDims resolves and the first tier spawns its probes.
SrvDimsClose(r) ==
    /\ reqs[r].pc = "dims"
    /\ reqs' = [reqs EXCEPT ![r].pc = "probing",
                            ![r].frame = VideoFrame(VideoOf(r)),
                            ![r].tier = 1,
                            ![r].running = 1..Len(pipelines),
                            ![r].first = 0,
                            ![r].results = <<Running, Running, Running>>]
    /\ UNCHANGED <<accum, disk, route, now, soloVars, unitVars>>

\* detectOnce: the probe of pipeline i closes and its promise resolves.
\* first remembers which probe of the tier closed first.
SrvProbeClose(r, i) ==
    /\ reqs[r].pc = "probing"
    /\ route = "smart"
    /\ i \in reqs[r].running
    /\ reqs' = [reqs EXCEPT
                  ![r].running = @ \ {i},
                  ![r].first = IF @ = 0 THEN i ELSE @,
                  ![r].results = [@ EXCEPT ![Slot(i, reqs[r].results)] =
                                     Resolved(SmartYield(VideoOf(r), reqs[r].tier, i))]]
    /\ UNCHANGED <<accum, disk, route, now, soloVars, unitVars>>

\* detectCropSmart after await Promise.all: the loop over the tier's
\* results, then the next tier or the return; processVideo throws for null
\* (the route answers 500) and picks the output path otherwise.
SrvTierSettle(r) ==
    /\ reqs[r].pc = "probing"
    /\ route = "smart"
    /\ reqs[r].running = {}
    /\ LET rs == reqs[r].results
           a == ScoreLoop(accum[Acc(r)], <<rs[1].c, rs[2].c, rs[3].c>>, 1, reqs[r].frame)
       IN /\ accum' = [accum EXCEPT ![Acc(r)] = a]
          /\ IF GoodEnough(a.bestScore) \/ reqs[r].tier = Len(limits)
             THEN IF a.best = NULL
                  THEN reqs' = [reqs EXCEPT ![r].pc = "done", ![r].status = 500,
                                            ![r].results = <<Idle, Idle, Idle>>]
                  ELSE reqs' = [reqs EXCEPT ![r].pc = "encode", ![r].crop = a.best,
                                            ![r].outFile = OutFile(now, route),
                                            ![r].results = <<Idle, Idle, Idle>>]
             ELSE reqs' = [reqs EXCEPT ![r].tier = @ + 1,
                                       ![r].running = 1..Len(pipelines),
                                       ![r].first = 0,
                                       ![r].results = <<Running, Running, Running>>]
    /\ UNCHANGED <<disk, route, now, soloVars, unitVars>>

\* server.js: the probe of detectDarkCrop closes; the route throws for null
\* and picks the output path otherwise.
SrvDarkClose(r) ==
    /\ reqs[r].pc = "probing"
    /\ route = "dark"
    /\ reqs[r].running = {1}
    /\ IF DarkYield(VideoOf(r)) = NULL
       THEN reqs' = [reqs EXCEPT ![r].pc = "done", ![r].status = 500, ![r].running = {}]
       ELSE reqs' = [reqs EXCEPT ![r].pc = "encode", ![r].running = {},
                                 ![r].crop = DarkYield(VideoOf(r)),
                                 ![r].outFile = OutFile(now, route)]
    /\ UNCHANGED <<accum, disk, route, now, soloVars, unitVars>>

\* The re-encode of request r closes with code 0: outFile holds the upload
\* cropped to crop.
SrvEncodeDone(r) ==
    /\ reqs[r].pc = "encode"
    /\ disk' = WriteFile(disk, reqs[r].outFile,
                         [video |-> VideoOf(r), crops |-> <<reqs[r].crop>>])
    /\ reqs' = [reqs EXCEPT ![r].pc = "sending"]
    /\ UNCHANGED <<accum, route, now, soloVars, unitVars>>

\* The re-encode fails: the route's catch answers 500.
SrvEncodeFail(r) ==
    /\ reqs[r].pc = "encode"
    /\ reqs' = [reqs EXCEPT ![r].pc = "done", ![r].status = 500]
    /\ UNCHANGED <<accum, disk, route, now, soloVars, unitVars>>

\* res.sendFile(outFile, callback): what the path holds is sent, and the
\* callback removes the request's directory.
SrvSendDone(r) ==
    /\ reqs[r].pc = "sending"
    /\ reqs' = [reqs EXCEPT ![r].pc = "done", ![r].status = 200,
                            ![r].sent = disk[reqs[r].outFile]]
    /\ disk' = RemoveDir(disk, reqs[r].dir)
    /\ UNCHANGED <<accum, route, now, soloVars, unitVars>>

\* A millisecond passes.
SrvTick ==
    /\ now < MaxClock
    /\ now' = now + 1
    /\ UNCHANGED <<reqs, accum, disk, route, soloVars, unitVars>>

ServerNext ==
    \/ SrvTick
    \/ \E r \in Reqs : SrvEmptyBody(r)
    \/ \E r \in Reqs, v \in Videos, d \in DirNames : SrvReceive(r, v, d)
    \/ \E r \in Reqs : SrvDimsClose(r)
    \/ \E r \in Reqs, i \in 1..Len(pipelines) : SrvProbeClose(r, i)
    \/ \E r \in Reqs : SrvTierSettle(r)
    \/ \E r \in Reqs : SrvDarkClose(r)
    \/ \E r \in Reqs : SrvEncodeDone(r)
    \/ \E r \in Reqs : SrvEncodeFail(r)
    \/ \E r \in Reqs : SrvSendDone(r)

SpecServer == ServerInit /\ [][ServerNext]_vars

(***************************************************************************)
(* What a rectangle token is, stated on the text and not on the scan.      *)
(***************************************************************************)
AllDigits(txt, a, b) == a <= b /\ \A i \in a..b : IsDigit(txt[i])

\* Where a run of digits that starts at a can end, with sep right after it.
RunEnds(txt, a, sep) ==
    { e \in a..Len(txt) : AllDigits(txt, a, e) /\ LitAt(txt, e + 1, sep) }

\* Where the last run of digits, which starts at a, ends: no digit follows.
LastRunEnds(txt, a) ==
    { e \in a..Len(txt) :
        AllDigits(txt, a, e) /\ (e = Len(txt) \/ ~IsDigit(txt[e + 1])) }

\* Every token of txt: crop= at p, the colons at i, j and k, the end at q.
Tokens(txt) ==
    UNION { UNION { UNION { UNION {
        { [p |-> p, i |-> ei + 1, j |-> ej + 1, k |-> ek + 1, q |-> q] :
            q \in LastRunEnds(txt, ek + 2) } :
        ek \in RunEnds(txt, ej + 2, <<":">>) } :
        ej \in RunEnds(txt, ei + 2, <<":">>) } :
        ei \in RunEnds(txt, p + 5, <<":">>) } :
        p \in { p \in 1..Len(txt) : LitAt(txt, p, CropLit) } }

LastToken(txt) == CHOOSE t \in Tokens(txt) : \A u \in Tokens(txt) : u.p <= t.p

RECURSIVE Pow10(_)
Pow10(n) == IF n = 0 THEN 1 ELSE 10 * Pow10(n - 1)

RECURSIVE SumOver(_, _, _, _)
SumOver(txt, a, b, i) ==
    IF i > b THEN 0
    ELSE DigitVal(txt[i]) * Pow10(b - i) + SumOver(txt, a, b, i + 1)

\* The number the digits txt[a..b] denote, by place value.
Denotes(txt, a, b, n) == n = SumOver(txt, a, b, a)

\* C1: when the text holds at least one rectangle token, parseCrop returns the
\* w, h, x, y of the last token of the text, and the first revision's parser
\* returns that token's text.
C1_LastTokenWins ==
    (unitPc = "done" /\ Tokens(stderrTxt) # {}) =>
        LET t == LastToken(stderrTxt)
        IN /\ parsed.crop # NULL
           /\ Denotes(stderrTxt, t.p + 5, t.i - 1, parsed.crop.w)
           /\ Denotes(stderrTxt, t.i + 1, t.j - 1, parsed.crop.h)
           /\ Denotes(stderrTxt, t.j + 1, t.k - 1, parsed.crop.x)
           /\ Denotes(stderrTxt, t.k + 1, t.q, parsed.crop.y)
           /\ parsed.text = SubSeq(stderrTxt, t.p, t.q)

\* C1 witness: a parsed text with two tokens of different values.
C1_Witness ==
    /\ unitPc = "done"
    /\ Cardinality({t.p : t \in Tokens(stderrTxt)}) >= 2
    /\ parsed.crop # NULL
    /\ parsed.crop.w = 4 /\ parsed.crop.h = 6 /\ parsed.crop.x = 1 /\ parsed.crop.y = 0

\* C2: when the text holds no rectangle token (the empty text included), both
\* parsers return null, a value and not an exception.
C2_NoTokenNoCandidate ==
    (unitPc = "done" /\ Tokens(stderrTxt) = {}) =>
        (parsed.crop = NULL /\ parsed.text = NULL)

\* C2 witness: a parsed non-empty text that mentions crop= and has no token.
C2_Witness ==
    /\ unitPc = "done"
    /\ Len(stderrTxt) > 0
    /\ \E p \in 1..Len(stderrTxt) : LitAt(stderrTxt, p, CropLit)
    /\ Tokens(stderrTxt) = {}
    /\ parsed.crop = NULL

\* C3: both scorers return the rejection sentinel -1 for a missing candidate
\* and for every candidate narrower than floor * W or lower than floor * H,
\* with floor 0.5 in scoreCrop and 0.6 in the light-border scorer.
C3_RejectionBand ==
    unitPc = "done" /\ scores # NULL =>
        /\ cand = NULL => (scores.smart = -1 /\ scores.white = -1)
        /\ (cand # NULL /\ frameIn.w # NaN) =>
              /\ (2 * cand.w < frameIn.w \/ 2 * cand.h < frameIn.h)
                    => scores.smart = -1
              /\ (10 * cand.w < 6 * frameIn.w \/ 10 * cand.h < 6 * frameIn.h)
                    => scores.white = -1

\* C3 witness: a candidate of full width and too little height, which the
\* light-border floor rejects and the 0.5 floor does not.
C3_Witness ==
    /\ unitPc = "done" /\ scores # NULL /\ cand # NULL
    /\ frameIn.w = 4 /\ frameIn.h = 4
    /\ cand.w = 4 /\ cand.h = 2
    /\ scores.white = -1
    /\ scores.smart # -1

(***************************************************************************)
(* The detectors and the routes.                                           *)
(***************************************************************************)
\* The score the running detector gives c on the frame it probes.
ScoreOf(c) ==
    IF route = "white" THEN whiteScore(c, frame.w, frame.h)
    ELSE scoreCrop(c, frame.w, frame.h)

\* The detectors that score: the tiered detectCropSmart and detectWhiteCrop.
Scoring == route \in {"smart", "white"}

\* C4: the rectangle a scoring detector returns has a score strictly above
\* the rejection sentinel, and when every rectangle its probes produced was
\* rejected (or none was produced) it returns null.
C4_NeverReturnsRejected ==
    (Scoring /\ det = "returned") =>
        /\ crop # NULL => JsGt(ScoreOf(crop), Reject)
        /\ (\A c \in seen : ScoreOf(c) = Reject) => crop = NULL

\* C4 witness: the tiered detector returned null after probes that produced
\* rectangles, all of them rejected.
C4_Witness ==
    /\ route = "smart" /\ det = "returned"
    /\ seen # {}
    /\ \A c \in seen : ScoreOf(c) = Reject
    /\ crop = NULL

\* C5: when no probe of the tiered detector yields a candidate with a
\* positive score, the detector returns null and the request ends as
\* "Could not detect crop"; so it does when every probe reports the full frame.
C5_ExhaustedWhenNoneAccepted ==
    (route = "smart" /\ det = "returned"
        /\ \A c \in seen : ~JsGt(ScoreOf(c), 0)) =>
        /\ crop = NULL
        /\ response = ErrorResponse(500, "Could not detect crop")

\* C6: the tiered detector starts the probes of a tier only at the start or
\* when every probe of the tier before has settled and no rectangle seen so
\* far has a positive score; after a positive score no probe is issued.
C6_TierOrder ==
    [][ (route = "smart" /\ nIssued' # nIssued) =>
          \/ (tier = 0 /\ tier' = 1 /\ seen = {})
          \/ /\ tier' = tier + 1
             /\ \A i \in 1..Len(pipelines) : results[i].st = "resolved"
             /\ \A c \in seen : ~JsGt(ScoreOf(c), 0) ]_vars

\* C6 witness: the second tier found a positive score after a first tier
\* without one, and the detector returned with six probes issued.
C6_Witness ==
    /\ route = "smart" /\ det = "returned"
    /\ tier = 2 /\ nIssued = 2 * Len(pipelines)
    /\ JsGt(bestScore, 0)

\* C7: in the light-border sweep, once a rectangle with a positive score has
\* been observed no further probe is issued.
C7_SweepStopsEarly ==
    [][ (route = "white" /\ pc = "probing"
            /\ \E c \in seen' : JsGt(whiteScore(c, frame.w, frame.h), 0)) =>
          nIssued' = nIssued ]_vars

\* C8: no rectangle produced by the probes a scoring detector ran scores
\* strictly higher than the one it returns (null counts as the sentinel).
C8_ReturnsMaximum ==
    (Scoring /\ det = "returned") =>
        \A c \in seen : ~JsGt(ScoreOf(c), ScoreOf(crop))

\* C8 witness: the tiered detector returned a rectangle with a positive
\* score after it also saw another, accepted with a lower score.
C8_Witness ==
    /\ route = "smart" /\ det = "returned"
    /\ crop # NULL
    /\ \E c \in seen : c # crop /\ JsGt(ScoreOf(c), Reject) /\ JsGt(ScoreOf(crop), ScoreOf(c))

\* C9: a probe that fails does not fail the detection of detectCropSmart, in
\* either revision: the request is not answered with the probe's error, and
\* a rectangle another probe of the tier produced is still used.
C9_ProbeFailureRecovered ==
    (route \in {"smart", "smart2"} /\ probeFailed) =>
        /\ det # "threw"
        /\ (route = "smart2" /\ det # "running" /\ seen # {}) => crop \in seen

\* C10: a request of the dark-border route whose only probe failed is not
\* answered "Could not detect crop", the answer for no usable candidate.
C10_DistinctFailureKinds ==
    (route = "dark" /\ pc = "responded" /\ probeFailed) =>
        response # ErrorResponse(500, "Could not detect crop")

\* getDims gave no usable size: the query printed no width or no height.
DimsUnusable == frame # NULL /\ (IsNaN(frame.w) \/ IsNaN(frame.h))

\* C11: when the dimension query of the tiered detector fails or yields no
\* usable width and height, the detection ends with an error of its own: it
\* neither returns null ("no candidate") nor a rectangle.
C11_DimensionsUnavailableSurfaces ==
    /\ (route = "smart" /\ DimsUnusable) => det # "returned"
    /\ (route = "smart" /\ DimsUnusable /\ pc = "responded") =>
            response # ErrorResponse(500, "Could not detect crop")

\* C12: once the wall clock has passed the detection's timeout (two seconds
\* in the scenario), the tiered detector issues no new probe, and it has no
\* probe in flight left: it has finalized with the best candidate so far.
C12_TimeoutStopsProbing ==
    [][ (route = "smart" /\ now > 2) =>
          /\ nIssued' = nIssued
          /\ \A i \in 1..Len(pipelines) : results'[i] # Running ]_vars

(***************************************************************************)
(* What the boxes of a text are, stated on the text and not on the scan.   *)
(***************************************************************************)
\* Where a component of key k stands in txt: the key, then a digit.
KeyHits(txt, k) ==
    { p \in 1..Len(txt) :
        LitAt(txt, p, BboxKey(k)) /\ AllDigits(txt, p + 13, p + 13) }

\* The number of the component at p: its longest run of digits, by place value.
ValueAt(txt, p) ==
    LET e == CHOOSE q \in LastRunEnds(txt, p + 13) : TRUE
    IN SumOver(txt, p + 13, e, p + 13)

\* The i-th element of a set of positions.
Nth(S, i) == CHOOSE p \in S : Cardinality({ q \in S : q < p }) = i - 1

\* How many boxes txt starts: its x components.
NBoxes(txt) == Cardinality(KeyHits(txt, "x"))

\* txt holds whole boxes only: as many x as y, w and h components, and one
\* at least.
WholeBoxes(txt) ==
    /\ NBoxes(txt) > 0
    /\ \A k \in {"y", "w", "h"} : Cardinality(KeyHits(txt, k)) = NBoxes(txt)

\* The value of component k of the i-th box.
BoxPart(txt, k, i) == ValueAt(txt, Nth(KeyHits(txt, k), i))

SetMin(S) == CHOOSE m \in S : \A n \in S : m <= n

SetMax(S) == CHOOSE m \in S : \A n \in S : m >= n

\* The union of the n boxes of txt.
UnionOf(txt, n) ==
    LET ux == SetMin({ BoxPart(txt, "x", i) : i \in 1..n })
        uy == SetMin({ BoxPart(txt, "y", i) : i \in 1..n })
    IN [x |-> ux, y |-> uy,
        w |-> SetMax({ BoxPart(txt, "x", i) + BoxPart(txt, "w", i) : i \in 1..n }) - ux,
        h |-> SetMax({ BoxPart(txt, "y", i) + BoxPart(txt, "h", i) : i \in 1..n }) - uy]

\* C13: on a text of whole per-frame boxes the motion detector returns their
\* union (x = min x_i, y = min y_i, w = max(x_i + w_i) - x,
\* h = max(y_i + h_i) - y) when that has a positive size, not the last box.
C13_MotionUnion ==
    (unitPc = "done" /\ parsed.code = 0) =>
        (WholeBoxes(stderrTxt) =>
            LET u == UnionOf(stderrTxt, NBoxes(stderrTxt))
            IN (u.w > 0 /\ u.h > 0) =>
                /\ parsed.crop # NULL
                /\ parsed.crop.x = u.x /\ parsed.crop.y = u.y
                /\ parsed.crop.w = u.w /\ parsed.crop.h = u.h)

\* C13 witness: two boxes, and the union returned is larger than the last.
C13_Witness ==
    /\ unitPc = "done" /\ parsed.code = 0
    /\ WholeBoxes(stderrTxt) /\ NBoxes(stderrTxt) = 2
    /\ parsed.crop # NULL
    /\ parsed.crop.w > BoxPart(stderrTxt, "w", 2)
    /\ parsed.crop.h > BoxPart(stderrTxt, "h", 2)

\* C14: the motion detector returns null for a text with no box component,
\* and whatever the numbers of x, y, w and h components, a rectangle it
\* returns has a numeric, positive w and h.
C14_MotionNullOrPositive ==
    (unitPc = "done" /\ parsed.code = 0) =>
        /\ (\A k \in {"x", "y", "w", "h"} : KeyHits(stderrTxt, k) = {}) =>
                parsed.crop = NULL
        /\ parsed.crop # NULL =>
                /\ parsed.crop.w \in 1..(Infinity - 1)
                /\ parsed.crop.h \in 1..(Infinity - 1)

\* C14 witness: more x than w components, and null is returned.
C14_Witness ==
    /\ unitPc = "done" /\ parsed.code = 0
    /\ Cardinality(KeyHits(stderrTxt, "x")) > Cardinality(KeyHits(stderrTxt, "w"))
    /\ KeyHits(stderrTxt, "w") # {}
    /\ parsed.crop = NULL

(***************************************************************************)
(* The scorers' terms, as the specification names them.                    *)
(***************************************************************************)
\* The Rectangle invariant of c on the frame f.
RectangleInv(c, f) ==
    /\ c.w > 0 /\ c.h > 0
    /\ c.x + c.w <= f.w /\ c.y + c.h <= f.h

\* The frame f as a candidate: x = 0, y = 0, w = W, h = H.
IsFullFrame(c, f) == c.x = 0 /\ c.y = 0 /\ c.w = f.w /\ c.h = f.h

RemovedArea(c, f) == f.w * f.h - c.w * c.h

\* The largest of the four bars of c on f.
LargestBar(c, f) ==
    SetMax({c.y, f.h - (c.y + c.h), c.x, f.w - (c.x + c.w)})

\* The bar-weighting terms of the two scorers.
SmartBarTerm(c, f) == 200 * LargestBar(c, f)

WhiteBarTerm(c, f) ==
    400 * SetMax({c.y, f.h - (c.y + c.h)}) + 50 * SetMax({c.x, f.w - (c.x + c.w)})

\* The scorers' unit run has scored a rectangle on a frame with a size.
Scored == unitPc = "done" /\ scores # NULL /\ cand # NULL /\ ~IsNaN(frameIn.w)

\* C15: the full frame scores 0 under both scorers; 0 is above the rejection
\* sentinel, and no candidate that satisfies the Rectangle invariant and is
\* not rejected scores below 0.
C15_FullFrameLowest ==
    Scored =>
        /\ IsFullFrame(cand, frameIn) =>
                (scores.smart = 0 /\ scores.white = 0 /\ 0 > Reject)
        /\ (RectangleInv(cand, frameIn) /\ scores.smart # Reject) => scores.smart >= 0
        /\ (RectangleInv(cand, frameIn) /\ scores.white # Reject) => scores.white >= 0

\* C15 witness: the full frame was scored, and it scored 0.
C15_Witness ==
    /\ Scored
    /\ frameIn.w = 4 /\ frameIn.h = 3
    /\ IsFullFrame(cand, frameIn)
    /\ scores.smart = 0

\* C16: of two candidates accepted on the same frame with the same
\* bar-weighting term, the one with the larger removed area has the strictly
\* larger score, under each scorer.
C16_Monotone ==
    Scored =>
        \A c2 \in ScoreCands \ {NULL} :
            RemovedArea(c2, frameIn) > RemovedArea(cand, frameIn) =>
                /\ (scores.smart # Reject
                        /\ scoreCrop(c2, frameIn.w, frameIn.h) # Reject
                        /\ SmartBarTerm(c2, frameIn) = SmartBarTerm(cand, frameIn)) =>
                        scoreCrop(c2, frameIn.w, frameIn.h) > scores.smart
                /\ (scores.white # Reject
                        /\ whiteScore(c2, frameIn.w, frameIn.h) # Reject
                        /\ WhiteBarTerm(c2, frameIn) = WhiteBarTerm(cand, frameIn)) =>
                        whiteScore(c2, frameIn.w, frameIn.h) > scores.white

\* C16 witness: a letterboxed candidate was scored and accepted, and another
\* accepted one with the same largest bar removes more.
C16_Witness ==
    /\ Scored
    /\ frameIn.w = 5 /\ frameIn.h = 5
    /\ cand = Rect(5, 4, 0, 1)
    /\ scores.smart # Reject
    /\ scoreCrop(Rect(4, 4, 1, 1), 5, 5) # Reject
    /\ SmartBarTerm(Rect(4, 4, 1, 1), frameIn) = SmartBarTerm(cand, frameIn)
    /\ RemovedArea(Rect(4, 4, 1, 1), frameIn) > RemovedArea(cand, frameIn)

\* C17: a rectangle a detector hands to the re-encode has w > 0 and h > 0,
\* and lies inside the frame the detector probed when it asked for its size:
\* x + w <= frameWidth and y + h <= frameHeight.
C17_HandedRectangleValid ==
    (pc = "encode" /\ crop # NULL) =>
        /\ crop.w > 0 /\ crop.h > 0
        /\ (frame # NULL /\ ~DimsUnusable) => RectangleInv(crop, frame)

\* The request was answered with a file.
Sent == pc = "responded" /\ response.status = 200

\* C18: when the second pass of the light-border route returns no rectangle,
\* the file sent is the intermediate itself: no second crop, no change.
C18_RefinementPassThrough ==
    (route \in WhiteRoutes /\ pass = 2 /\ det = "returned" /\ crop = NULL /\ Sent) =>
        response.file = tmp1

\* C19: when every rectangle the probes of the second pass report is the
\* intermediate's full frame (or they report none), the second pass returns
\* no candidate and the file sent is the intermediate.
C19_RefinementIdempotent ==
    (route = "white2" /\ pass = 2 /\ det = "returned"
        /\ \A c \in seen : IsFullFrame(c, frame)) =>
        /\ crop = NULL
        /\ Sent => response.file = tmp1

\* C20: the second pass runs only after the first produced a rectangle and
\* the intermediate was written with it; it is given the intermediate, its
\* frame is the intermediate's own size, and its rectangle is cut out of the
\* intermediate. With no rectangle from the first pass there is no
\* intermediate and no second pass.
C20_RefinementOnIntermediate ==
    route \in WhiteRoutes =>
        /\ pass = 2 =>
              (crop1 # NULL /\ tmp1 = Encode(Upload, crop1) /\ target = tmp1)
        /\ (pass = 2 /\ (pc \in {"probing", "encode", "copy"} \/ Sent)) =>
              frame = [w |-> (crop1.w \div 2) * 2, h |-> (crop1.h \div 2) * 2]
        /\ (pass = 2 /\ Sent /\ crop # NULL) =>
              response.file = [crops |-> <<crop1, crop>>, encodes |-> 2]
        /\ pass = 1 => (tmp1 = NULL /\ target \in {NULL, Upload})
        /\ crop1 = NULL => (tmp1 = NULL /\ pass = 1)

\* C20 witness: the second pass found a rectangle on the intermediate and
\* the file sent carries both crops.
C20_Witness ==
    /\ route = "white2" /\ pass = 2 /\ Sent
    /\ crop # NULL /\ crop # crop1
    /\ response.file.crops = <<crop1, crop>>

(***************************************************************************)
(* The order of the strategies.                                            *)
(***************************************************************************)
\* C21: the strategies run in a fixed order per target mode.  In the scored
\* sweep the probe in flight is the one of combination tier and as many
\* probes have been issued as combinations reached, so when an inversion
\* probe is in flight every thresholded probe (thresholds x blurs x limits)
\* has been issued before it; the two-pipeline light pass issues thresholded
\* probes only; a dark-border detection issues exactly one probe.
C21_StrategyOrder ==
    /\ (route \in WhiteRoutes /\ pc = "probing") =>
          /\ nIssued = tier
          /\ tier \in 1..NCombos
          /\ ComboKind(tier) = "invert" =>
                tier > Len(thresholds) * Len(blurs) * Len(whiteLimits)
          /\ ComboKind(tier) = "threshold" =>
                tier <= Len(thresholds) * Len(blurs) * Len(whiteLimits)
    /\ (route = "white0" /\ pc = "probing") =>
          (nIssued = tier /\ tier \in 1..Len(whitePipelines))
    /\ route = "dark" => nIssued <= 1
    /\ (route = "dark" /\ det = "returned") => nIssued = 1

\* The first inversion probe of a sweep is in flight.
C21_Witness ==
    /\ route \in WhiteRoutes /\ pc = "probing"
    /\ ComboKind(tier) = "invert" /\ ComboKind(tier - 1) = "threshold"
    /\ results[1] = Running /\ nIssued = NThreshold + 1

(***************************************************************************)
(* Termination of a detection.                                             *)
(***************************************************************************)
\* How many probes a detection of the revision may issue: one per parameter
\* combination (part_002 adds the one motion probe of its fallback).
ProbeBudget ==
    [r \in Routes |->
        CASE r = "smart" -> Len(limits) * Len(pipelines)
          [] r = "white" -> NCombos
          [] r = "white2" -> NCombos + 1
          [] r = "white0" -> Len(whitePipelines)
          [] r = "smart2" -> 2
          [] OTHER -> 1]

\* C22: given that every child process exits, a detection that runs ends,
\* and the tiered detector and the scored sweep, once probing, return (a
\* rectangle or null); no detection issues more probes than it has parameter
\* combinations; and while a detection runs it never goes back to a
\* combination it has left and issues a probe only by moving on to a new
\* combination (no retry of a failed probe).
C22_DetectionTerminates ==
    /\ (det = "running") ~> (det \in {"returned", "threw"})
    /\ (pc = "probing" /\ route \in {"smart"} \cup WhiteRoutes) ~> (det = "returned")
    /\ [](nIssued <= ProbeBudget[route])
    /\ [][(det = "running" /\ det' = "running" /\ pass' = pass /\ pc = "probing") =>
            /\ tier' >= tier
            /\ nIssued' >= nIssued
            /\ (tier' = tier /\ pc' # "motion") => nIssued' = nIssued]_vars

\* A tiered detection has returned null after all its twelve probes, two of
\* which failed.
C22_Witness ==
    /\ route = "smart" /\ det = "returned" /\ crop = NULL
    /\ nIssued = Len(limits) * Len(pipelines) /\ probeFailed

(***************************************************************************)
(* The accumulator of the tiered detector.                                 *)
(***************************************************************************)
\* The tiered detector stands between two tiers, or has returned.
TierDone ==
    /\ route = "smart"
    /\ \/ det = "returned"
       \/ pc = "probing" /\ tier > 1 /\ \A i \in 1..Len(pipelines) : results[i] = Running

\* C24: no update of the accumulator is lost in the fan-out of a tier.  When
\* a tier of the tiered detector is over, in whatever order its three probes
\* closed, no rectangle a probe of this or an earlier tier produced scores
\* above bestScore, and best is one of those rectangles and has the score
\* bestScore (or is null, with the initial score).
C24_NoLostUpdate ==
    TierDone =>
        /\ \A c \in seen : ~JsGt(scoreCrop(c, frame.w, frame.h), bestScore)
        /\ best = NULL => bestScore = InitBestScore
        /\ best # NULL => (best \in seen /\ scoreCrop(best, frame.w, frame.h) = bestScore)

\* A tier later than the first ended with two different rectangles of
\* positive score, and the accumulator holds the better one.
C24_Witness ==
    /\ TierDone /\ tier > 1 /\ det = "returned"
    /\ Cardinality({ c \in seen : JsGt(scoreCrop(c, frame.w, frame.h), 0) }) >= 2
    /\ best # NULL
    /\ \E c \in seen : c # best /\ JsGt(bestScore, scoreCrop(c, frame.w, frame.h))
                        /\ JsGt(scoreCrop(c, frame.w, frame.h), 0)

(***************************************************************************)
(* Scenario A: black bars of 140 lines above and below a 1920x1080 frame.  *)
(***************************************************************************)
FrameA == [w |-> 1920, h |-> 1080]

RectA == Rect(1920, 800, 0, 140)

\* The tiered detector, on the frame of scenario A, scores a tier in which
\* the dark-border probe reported the rectangle of scenario A.
SettlesOnRectA ==
    /\ route = "smart" /\ pc = "probing" /\ frame = FrameA
    /\ \A i \in 1..Len(pipelines) : results[i].st = "resolved"
    /\ results[1].c = RectA
    /\ results' # results

\* C25 as stated: whenever the dark-border probe of a tier reports the
\* rectangle of scenario A on a 1920x1080 frame, its score is positive and
\* the detection returns exactly that rectangle and starts no further tier.
C25_ScenarioAReturned ==
    [][ SettlesOnRectA =>
          /\ JsGt(scoreCrop(RectA, FrameA.w, FrameA.h), 0)
          /\ det' = "returned" /\ crop' = RectA
          /\ tier' = tier /\ nIssued' = nIssued ]_vars

\* C25 amended: in that case the score of the rectangle is positive and the
\* detection returns after this tier without starting another; it returns
\* the rectangle of scenario A unless the inverted or the edge probe of the
\* same tier reported a rectangle with a strictly higher score, and then it
\* returns that one.
C25_ScenarioABestOfTier ==
    [][ SettlesOnRectA =>
          /\ JsGt(scoreCrop(RectA, FrameA.w, FrameA.h), 0)
          /\ det' = "returned" /\ pc' = "encode"
          /\ tier' = tier /\ nIssued' = nIssued
          /\ (\A i \in 2..Len(pipelines) :
                 ~JsGt(scoreCrop(results[i].c, FrameA.w, FrameA.h),
                       scoreCrop(RectA, FrameA.w, FrameA.h))) => crop' = RectA
          /\ crop' # RectA =>
                \E i \in 2..Len(pipelines) :
                    /\ crop' = results[i].c
                    /\ JsGt(scoreCrop(crop', FrameA.w, FrameA.h),
                            scoreCrop(RectA, FrameA.w, FrameA.h)) ]_vars

\* The detection returned the rectangle of scenario A after the first tier,
\* in which another probe reported the full frame.
C25_Witness ==
    /\ route = "smart" /\ frame = FrameA /\ det = "returned"
    /\ crop = RectA /\ tier = 1 /\ nIssued = Len(pipelines)
    /\ Rect(1920, 1080, 0, 0) \in seen
    /\ bestScore = 565600

SelectorScore(c) ==
    IF route \in WhiteRoutes THEN whiteScore(c, frame.w, frame.h)
    ELSE scoreCrop(c, frame.w, frame.h)

\* The results of the tier in the order of the pipelines: dark, inverted,
\* edge.
TierResults == <<results[1].c, results[2].c, results[3].c>>

\* C30: among candidates of equal score the selector keeps the first in its
\* enumeration order.  The retained candidate is replaced only by one with a
\* strictly higher score; in the sweep that is the candidate of the probe
\* that just closed (the combinations are probed in the order threshold,
\* blur, limit, then the inversion fallback), and in the tiered detector it
\* is the first in pipeline order of the tier's results that reach the
\* tier's highest score.
C30_FirstOfEqualsKept ==
    [][ (route \in {"smart"} \cup WhiteRoutes /\ pc = "probing" /\ best' # best) =>
          /\ best' # NULL
          /\ JsGt(SelectorScore(best'), bestScore)
          /\ bestScore' = SelectorScore(best')
          /\ route \in WhiteRoutes => best' \in seen'
          /\ route = "smart" =>
                \E i \in 1..Len(pipelines) :
                    /\ TierResults[i] = best'
                    /\ \A j \in 1..Len(pipelines) :
                          ~JsGt(SelectorScore(TierResults[j]), SelectorScore(best'))
                    /\ \A j \in 1..(i - 1) :
                          SelectorScore(TierResults[j]) # SelectorScore(best') ]_vars

\* A sweep returned after it saw two different rectangles that share the
\* highest score.
C30_Witness ==
    /\ route \in WhiteRoutes /\ det = "returned" /\ crop # NULL
    /\ crop = best /\ JsGt(bestScore, 0)
    /\ \E c \in seen : c # best /\ SelectorScore(c) = bestScore
    /\ \A c \in seen : ~JsGt(SelectorScore(c), bestScore)


(***************************************************************************)
(* Two requests on one server.                                             *)
(***************************************************************************)
\* Request r has been received and not answered yet.
InFlight(r) == reqs[r].pc \in {"dims", "probing", "encode", "sending"}

\* Request r's detection has returned (a rectangle or null).
Detected(r) ==
    /\ reqs[r].video # ""
    /\ reqs[r].pc \in {"encode", "sending", "done"}

\* What detectCropSmart returns for video v when no other request runs:
\* tier after tier, from acc.
RECURSIVE SoloRun(_, _, _)
SoloRun(a0, v, t) ==
    LET a == ScoreLoop(a0, <<SmartYield(v, t, 1), SmartYield(v, t, 2), SmartYield(v, t, 3)>>,
                       1, VideoFrame(v))
    IN IF GoodEnough(a.bestScore) \/ t = Len(limits) THEN a.best
       ELSE SoloRun(a, v, t + 1)

\* C23: concurrent detection requests share no mutable detection state:
\* two requests in flight never have the same temp directory, the input file
\* a request probes holds that request's upload, and the rectangle a request
\* returns is the one its own probes' results give when it runs alone,
\* under every interleaving with the other request.
C23_NoSharedDetectionState ==
    /\ \A r1, r2 \in Reqs :
          (r1 # r2 /\ InFlight(r1) /\ InFlight(r2)) => reqs[r1].dir # reqs[r2].dir
    /\ \A r \in Reqs :
          InFlight(r) => /\ InFile(reqs[r].dir) \in DOMAIN disk
                         /\ VideoOf(r) = reqs[r].video
    /\ \A r \in Reqs :
          (route = "smart" /\ Detected(r)) => reqs[r].crop = SoloRun(InitAcc, reqs[r].video, 1)

\* Both requests are in flight with different uploads, both detections have
\* returned, each with the rectangle of its own upload.
C23_Witness ==
    /\ route = "smart"
    /\ reqs[1].video = "letterbox" /\ reqs[1].pc = "encode"
    /\ reqs[1].crop = Rect(1920, 800, 0, 140)
    /\ reqs[2].video = "ties" /\ reqs[2].pc = "encode"
    /\ reqs[2].crop = Rect(1920, 900, 0, 60)

\* C26: two crop requests handled concurrently never write their re-encoded
\* output to the same path: the output paths of two requests in flight
\* differ, also when both were picked in the same millisecond.
C26_OutputPathsDistinct ==
    \A r1, r2 \in Reqs :
        (r1 # r2 /\ reqs[r1].pc \in {"encode", "sending"}
                 /\ reqs[r2].pc \in {"encode", "sending"})
            => reqs[r1].outFile # reqs[r2].outFile

\* C27: every temp directory and file a request created is removed once the
\* request has been answered, on the success path and on every failure
\* path: when every request has been answered (nothing runs any more),
\* nothing is left in the temp directory.
C27_TempFilesRemoved ==
    (\A r \in Reqs : reqs[r].pc = "done") => DOMAIN disk = {}

\* C29: the rectangle chosen by detectCropSmart does not depend on the
\* order in which the probes of a tier complete: two runs on the same
\* upload (the same per-pipeline results) return the same rectangle,
\* whichever probe closed first in each.
C29_CompletionOrderIrrelevant ==
    route = "smart" =>
        \A r1, r2 \in Reqs :
            (Detected(r1) /\ Detected(r2) /\ reqs[r1].video = reqs[r2].video)
                => reqs[r1].crop = reqs[r2].crop

\* Two runs on the upload whose first and second pipeline tie in the last
\* tier run: in one the first pipeline's probe closed first, in the other
\* the second's; both returned the first pipeline's rectangle.
C29_Witness ==
    /\ route = "smart"
    /\ reqs[1].video = "ties" /\ reqs[2].video = "ties"
    /\ Detected(1) /\ Detected(2)
    /\ reqs[1].first = 1 /\ reqs[2].first = 2
    /\ reqs[1].crop = Rect(1920, 900, 0, 60)
    /\ reqs[2].crop = Rect(1920, 900, 0, 60)
====
